---- MODULE Spec2Model ----
(***************************************************************************)
(* fixdecoder2: the order-lifecycle aggregator (decoder/summary.rs), the   *)
(* dictionary registry and schema compiler (decoder/tag_lookup.rs), the    *)
(* validator (decoder/validator.rs), the prettifier and stream driver      *)
(* (decoder/prettifier.rs) and the PCAP extractor (pcap2fix/src/main.rs)   *)
(* as state machines.                                                      *)
(*                                                                         *)
(* The specifications of the module:                                       *)
(*   Spec          the aggregator fed with messages of Msgs                *)
(*   SpecLifecycle the aggregator fed with the status messages StatusMsgs  *)
(*   SpecRegistry  the dictionary registry                                 *)
(*   SpecPcap      one TCP flow of the PCAP extractor                      *)
(*   SpecSchema    FixTagLookup::from_dictionary on the dictionaries of    *)
(*                 FixDictionaries                                         *)
(*   SpecValidator validate_fix_message and the validation-mode rendering  *)
(*                 on the messages of ValidatorMsgs                        *)
(*   SpecDriver    stream_until_complete in validation mode, with the      *)
(*                 cancellation flag and a growing input                   *)
(*   SpecNames     FixTagLookup::field_name on the lookups the registry    *)
(*                 resolves, override and fallback chain included          *)
(*   SpecStates    the aggregator fed with the messages of StateMsgs       *)
(*   SpecFraming   find_message_end on the buffers of Buffers              *)
(*   SpecExpand    the recursive expansions of the compiler on a group,    *)
(*                 one call or return per step                             *)
(*   SpecRace      two threads in load_dictionary_with_override and one    *)
(*                 in register_dictionary, one lock acquisition per step   *)
(***************************************************************************)
EXTENDS Integers, Sequences, FiniteSets, TLC

VARIABLES
    \* OrderSummary (summary.rs:17-27)
    orders, aliases, unknown_counter, completed, total_orders,
    terminal_orders, fix_override_key,
    \* the caller of the aggregator: messages handed to record_message so
    \* far, the override it passes, and the records render_completed wrote
    log, fix_override, rendered,
    \* LOOKUPS (tag_lookup.rs:221) and the allocation count of Arc objects
    lookups, next_obj,
    \* the caller of the registry: the last call and what it returned
    reg_call,
    \* FlowState (pcap2fix/src/main.rs:49-53), the output sink, and the
    \* last segment handed to reassemble_and_emit with the state before it
    next_seq, buffer, out, seg,
    \* the FixDictionary handed to FixTagLookup::from_dictionary and the
    \* lookup compiled from it, the message handed to the validator, its
    \* ValidationReport (none before the validator ran), and what validation
    \* mode wrote for it
    dictionary, schema, checked, report, pretty,
    \* the stream driver: the INTERRUPTED flag, the position and the locals
    \* of stream_until_complete and stream_reader, the reader, and ctx.out
    interrupted, driver, reader, ctx_out,
    \* the caller of FixTagLookup::field_name: the tag it asked for and the
    \* name it got (none before the call)
    name_call,
    \* the expansion of one component or group of a dictionary: the call
    \* stack of the recursive functions, the stack of component names, the
    \* cache of the node builder and the values built so far
    expansion,
    \* the threads that call the registry concurrently: their position in
    \* load_dictionary_with_override or register_dictionary and their locals
    threads

summaryVars == <<orders, aliases, unknown_counter, completed, total_orders,
                 terminal_orders, fix_override_key, log, fix_override, rendered>>
registryVars == <<lookups, next_obj, reg_call>>
pcapVars == <<next_seq, buffer, out, seg>>
streamVars == <<interrupted, driver, reader, ctx_out>>
toolVars == <<dictionary, schema, checked, report, pretty, streamVars, name_call,
              expansion, threads>>
vars == <<summaryVars, registryVars, pcapVars, toolVars>>

\* Option::None
None == "<none>"

\* Option::None for next_seq
NoSeq == <<>>

\* the largest of a non-empty set of integers
SetMax(S) == CHOOSE x \in S : \A y \in S : y <= x

\* the smallest of a non-empty set of integers
SetMin(S) == CHOOSE x \in S : \A y \in S : x <= y

\* a variant that leaves the entry in the map
MapKeep(f, k) == f

\* map without the entry k (HashMap::remove)
MapRemove(f, k) == [x \in DOMAIN f \ {k} |-> f[x]]

\* map with k bound to v, replacing an earlier binding (HashMap::insert)
MapInsert(f, k, v) == (k :> v) @@ f

\* sequence without its element at position pos (Vec::remove)
SeqRemove(s, pos) == [i \in 1..(Len(s) - 1) |-> IF i < pos THEN s[i] ELSE s[i + 1]]

(***************************************************************************)
(* Dictionary registry                                                     *)
(***************************************************************************)

\* bound: registrations and cache rebuilds allocate at most this many objects
MaxObjects == 5

SESSION_KEY == "FIXT11"

\* the XML asset behind an embedded key; None when the key is not embedded
schema_to_xml_id(key) ==
    CASE key = "FIX27" -> "40"
      [] key = "FIX30" -> "40"
      [] key = "FIX40" -> "40"
      [] key = "FIX41" -> "41"
      [] key = "FIX42" -> "42"
      [] key = "FIX43" -> "43"
      [] key = "FIX44" -> "44"
      [] key = "FIX50" -> "50"
      [] key = "FIX50SP1" -> "50SP1"
      [] key = "FIX50SP2" -> "50SP2"
      [] key = "FIXT11" -> "T11"
      [] OTHER -> None

needs_session_merge(key) == key \in {"FIX50", "FIX50SP1", "FIX50SP2"}

appl_ver_to_schema(value) ==
    CASE value = "0" -> "FIX27"
      [] value = "1" -> "FIX30"
      [] value = "2" -> "FIX40"
      [] value = "3" -> "FIX41"
      [] value = "4" -> "FIX42"
      [] value = "5" -> "FIX43"
      [] value = "6" -> "FIX44"
      [] value = "7" -> "FIX50"
      [] value = "8" -> "FIX50SP1"
      [] value = "9" -> "FIX50SP2"
      [] OTHER -> None

\* A message is the ordered list of its tag=value fragments, each a pair
\* <<tag, value>>.  The value of the first fragment carrying the tag.
get_tag_value(msg, tag) ==
    LET hits == {i \in 1..Len(msg) : msg[i][1] = tag}
    IN  IF hits = {} THEN None ELSE msg[SetMin(hits)][2]

\* str::replace('.', "") on the BeginString values the model uses
StripDots(begin) ==
    CASE begin = "FIX.4.2" -> "FIX42"
      [] begin = "FIX.4.4" -> "FIX44"
      [] begin = "FIX.5.0" -> "FIX50"
      [] begin = "FIX.9.9" -> "FIX99"
      [] OTHER -> begin

detect_schema_key(msg) ==
    LET begin == get_tag_value(msg, 8)
        appl == IF get_tag_value(msg, 1128) # None
                THEN get_tag_value(msg, 1128) ELSE get_tag_value(msg, 1137)
    IN  IF begin # None
        THEN IF begin = "FIXT.1.1"
             THEN IF appl # None /\ appl_ver_to_schema(appl) # None
                  THEN appl_ver_to_schema(appl)
                  ELSE "FIX50"
             ELSE StripDots(begin)
        ELSE "FIX44"

\* A cache key is a list of tokens: <<K>> for a schema key, and
\* format!("{key}+{detected_key}") is <<key, "+", detected_key>>.
PlainKey(key) == <<key>>
ComboKey(key, detected_key) == <<key, "+", detected_key>>

\* str::split_once('+'): the tokens before and after the first "+"; the
\* empty tuple stands for Option::None
split_once_plus(k) ==
    LET hits == {i \in 1..Len(k) : k[i] = "+"}
    IN  IF hits = {} THEN <<>>
        ELSE <<SubSeq(k, 1, SetMin(hits) - 1), SubSeq(k, SetMin(hits) + 1, Len(k))>>

\* Option::None for an Arc<FixTagLookup>
NoLookup == [id |-> 0]

\* A compiled lookup behind an Arc: id is the identity of the allocation,
\* xml names the dictionary it was compiled from.
NewLookup(id, key, xml, fallback, role) ==
    [id |-> id, schema_key |-> key, xml |-> xml, fallback |-> fallback,
     fallback_role |-> role]

\* the state of the registry that the functions below transform
Registry(l, n) == [lookups |-> l, next_obj |-> n]

\* result of a registry function: the registry afterwards and the returned Arc
Ret(reg, res) == [reg |-> reg, res |-> res]

\* a variant that looks at the override side of a composite key only
drop_override_entries_for(key, guard) ==
    LET stale == {k \in DOMAIN guard :
                     /\ split_once_plus(k) # <<>>
                     /\ split_once_plus(k)[1] = <<key>>}
    IN  [k \in DOMAIN guard \ stale |-> guard[k]]

drop_combo_entries_for(key, guard) ==
    LET stale == {k \in DOMAIN guard :
                     /\ split_once_plus(k) # <<>>
                     /\ \/ split_once_plus(k)[1] = <<key>>
                        \/ split_once_plus(k)[2] = <<key>>}
    IN  [k \in DOMAIN guard \ stale |-> guard[k]]

clear_override_cache_for(key, reg) ==
    Registry(drop_combo_entries_for(key, reg.lookups), reg.next_obj)

\* get_dictionary for a key that needs no session merge
get_dictionary_base(reg, key) ==
    IF PlainKey(key) \in DOMAIN reg.lookups
    THEN Ret(reg, reg.lookups[PlainKey(key)])
    ELSE IF schema_to_xml_id(key) = None
         THEN Ret(reg, NoLookup)
         ELSE LET arc == NewLookup(reg.next_obj, key, schema_to_xml_id(key), NoLookup, None)
              IN  Ret(Registry(MapInsert(reg.lookups, PlainKey(key), arc),
                               reg.next_obj + 1), arc)

\* the lookup value (not yet behind an Arc) for key compiled from xml, and
\* the registry after the session dictionary was fetched for it
build_lookup_from_dict(reg, key, xml) ==
    LET with_session(s) ==
            IF s.res # NoLookup
            THEN Ret(s.reg, [schema_key |-> key, xml |-> xml,
                             fallback |-> s.res, fallback_role |-> "Session"])
            ELSE Ret(s.reg, [schema_key |-> key, xml |-> xml,
                             fallback |-> NoLookup, fallback_role |-> None])
    IN  IF needs_session_merge(key)
        THEN with_session(get_dictionary_base(reg, SESSION_KEY))
        ELSE Ret(reg, [schema_key |-> key, xml |-> xml,
                       fallback |-> NoLookup, fallback_role |-> None])

get_dictionary(reg, key) ==
    LET \* entry(key).or_insert_with(|| Arc::new(lookup))
        or_insert(b, arc) ==
            IF PlainKey(key) \in DOMAIN b.reg.lookups
            THEN Ret(Registry(b.reg.lookups, b.reg.next_obj + 1),
                     b.reg.lookups[PlainKey(key)])
            ELSE Ret(Registry(MapInsert(b.reg.lookups, PlainKey(key), arc),
                              b.reg.next_obj + 1), arc)
        build(b) ==
            or_insert(b, NewLookup(b.reg.next_obj, key, b.res.xml, b.res.fallback,
                                   b.res.fallback_role))
    IN  IF PlainKey(key) \in DOMAIN reg.lookups
        THEN Ret(reg, reg.lookups[PlainKey(key)])
        ELSE IF schema_to_xml_id(key) = None
             THEN Ret(reg, NoLookup)
             ELSE build(build_lookup_from_dict(reg, key, schema_to_xml_id(key)))

load_dictionary(reg, msg) ==
    LET or_default(first) ==
            IF first.res # NoLookup THEN first ELSE get_dictionary(first.reg, "FIX44")
    IN  or_default(get_dictionary(reg, detect_schema_key(msg)))

merge_with_fallback(id, primary, fallback, role) ==
    NewLookup(id, primary.schema_key, primary.xml, fallback, role)

load_dictionary_with_override(reg, msg, override_key) ==
    LET combo_key == ComboKey(override_key, detect_schema_key(msg))
        insert(r, merged) ==
            Ret(Registry(MapInsert(r.lookups, combo_key, merged), r.next_obj + 1),
                merged)
        merge(dict, fallback) ==
            IF dict.id = fallback.res.id
            THEN Ret(fallback.reg, dict)
            ELSE insert(fallback.reg,
                        merge_with_fallback(fallback.reg.next_obj, dict, fallback.res,
                                            "DetectedOverride"))
        with_override(d) ==
            IF d.res # NoLookup
            THEN merge(d.res, load_dictionary(d.reg, msg))
            ELSE load_dictionary(d.reg, msg)
    IN  IF override_key # None
        THEN IF combo_key \in DOMAIN reg.lookups
             THEN Ret(reg, reg.lookups[combo_key])
             ELSE with_override(get_dictionary(reg, override_key))
        ELSE load_dictionary(reg, msg)

\* register_dictionary: the registry afterwards; res is the Arc it built
register_dictionary(reg, key, xml) ==
    LET insert(r, arc) ==
            Ret(Registry(drop_combo_entries_for(key,
                             MapInsert(r.lookups, PlainKey(key), arc)),
                         r.next_obj + 1), arc)
        build(b) ==
            insert(b.reg, NewLookup(b.reg.next_obj, key, b.res.xml, b.res.fallback,
                                    b.res.fallback_role))
    IN  build(build_lookup_from_dict(reg, key, xml))

(***************************************************************************)
(* Order aggregator                                                        *)
(***************************************************************************)

\* bound: number of messages handed to record_message
MaxMsgs == 3

\* the fields of a message as record_message collects them into its map:
\* a later fragment with the same tag replaces an earlier one
FieldMap(fields) ==
    [t \in {fields[i][1] : i \in 1..Len(fields)} |->
        fields[SetMax({i \in 1..Len(fields) : fields[i][1] = t})][2]]

\* HashMap::get(&tag).cloned()
MapGet(map, tag) == IF tag \in DOMAIN map THEN map[tag] ELSE None

label_ord_status_raw(value) ==
    CASE value = "A" -> "Pending New"
      [] value = "0" -> "New"
      [] value = "1" -> "Partially Filled"
      [] value = "2" -> "Filled"
      [] value = "3" -> "Done for Day"
      [] value = "4" -> "Canceled"
      [] value = "5" -> "Replaced"
      [] value = "6" -> "Pending Cancel"
      [] value = "7" -> "Stopped"
      [] value = "8" -> "Rejected"
      [] value = "9" -> "Suspended"
      [] value = "B" -> "Calculated"
      [] value = "C" -> "Expired"
      [] value = "D" -> "Accepted for Bidding"
      [] value = "E" -> "Pending Replace"
      [] OTHER -> None

label_exec_type_raw(value) ==
    CASE value = "A" -> "Pending New"
      [] value = "0" -> "New"
      [] value = "1" -> "Partially Filled"
      [] value = "2" -> "Filled"
      [] value = "3" -> "Done for Day"
      [] value = "4" -> "Canceled"
      [] value = "5" -> "Replaced"
      [] value = "6" -> "Pending Cancel"
      [] value = "7" -> "Stopped"
      [] value = "8" -> "Rejected"
      [] value = "9" -> "Suspended"
      [] value = "C" -> "Expired"
      [] value = "E" -> "Pending Replace"
      [] value = "F" -> "Trade"
      [] value = "G" -> "Trade Correct"
      [] value = "H" -> "Trade Cancel"
      [] value = "I" -> "Order Status"
      [] OTHER -> None

label_exec_ack_status_raw(value) ==
    CASE value = "0" -> "Received"
      [] value = "1" -> "Accepted"
      [] value = "2" -> "Dont Know"
      [] value = "3" -> "Rejected"
      [] value = "4" -> "Accepted With Errors"
      [] OTHER -> None

\* a variant that asks ExecType before OrdStatus
derive_state_exec_type_first(exec_type, ord_status, leaves_qty, exec_ack_status) ==
    IF label_exec_type_raw(exec_type) # None
    THEN label_exec_type_raw(exec_type)
    ELSE IF label_ord_status_raw(ord_status) # None
    THEN label_ord_status_raw(ord_status)
    ELSE IF label_exec_ack_status_raw(exec_ack_status) # None
    THEN label_exec_ack_status_raw(exec_ack_status)
    ELSE IF leaves_qty # None /\ leaves_qty = "0"
    THEN "Filled"
    ELSE "Unknown"

derive_state(exec_type, ord_status, leaves_qty, exec_ack_status) ==
    IF label_ord_status_raw(ord_status) # None
    THEN label_ord_status_raw(ord_status)
    ELSE IF label_exec_type_raw(exec_type) # None
    THEN label_exec_type_raw(exec_type)
    ELSE IF label_exec_ack_status_raw(exec_ack_status) # None
    THEN label_exec_ack_status_raw(exec_ack_status)
    ELSE IF leaves_qty # None /\ leaves_qty = "0"
    THEN "Filled"
    ELSE "Unknown"

\* OrderEvent::from_fields, with the fields the lifecycle depends on
OrderEventFromFields(fields) ==
    [msg_type |-> MapGet(fields, 35),
     exec_type |-> MapGet(fields, 150),
     ord_status |-> MapGet(fields, 39),
     exec_ack_status |-> MapGet(fields, 1036),
     leaves_qty |-> MapGet(fields, 151),
     cl_ord_id |-> MapGet(fields, 11),
     orig_cl_ord_id |-> MapGet(fields, 41),
     state |-> derive_state(MapGet(fields, 150), MapGet(fields, 39),
                            MapGet(fields, 151), MapGet(fields, 1036))]

\* OrderRecord::new
NewOrderRecord(key) ==
    [key |-> key, order_id |-> None, cl_ord_id |-> None, orig_cl_ord_id |-> None,
     symbol |-> None, side |-> None, qty |-> None, cum_qty |-> None,
     leaves_qty |-> None, avg_px |-> None, currency |-> None, price |-> None,
     last_qty |-> None, events |-> <<>>, messages |-> <<>>]

\* the states of the events with consecutive duplicates removed
RECURSIVE state_path_of(_)
state_path_of(events) ==
    IF events = <<>> THEN <<>>
    ELSE LET states == state_path_of(SubSeq(events, 1, Len(events) - 1))
             ev == events[Len(events)]
         IN  IF states # <<>> /\ states[Len(states)] = ev.state
             THEN states
             ELSE Append(states, ev.state)

state_path(rec) == state_path_of(rec.events)

TerminalStates ==
    {"Filled", "Canceled", "Rejected", "Done for Day", "Expired", "Stopped",
     "Suspended", "Calculated"}

\* a variant that looks at the order state only, not at ExecAckStatus
is_terminal_by_state(rec) ==
    LET path == state_path(rec)
    IN  path # <<>> /\ path[Len(path)] \in TerminalStates

is_terminal(rec) ==
    LET path == state_path(rec)
        acked == {i \in 1..Len(rec.events) : rec.events[i].exec_ack_status # None}
    IN  \/ path # <<>> /\ path[Len(path)] \in TerminalStates
        \/ acked # {} /\ rec.events[SetMax(acked)].exec_ack_status \in {"1", "3", "4"}

merge_ids(rec, order_id, cl_ord_id, orig) ==
    [rec EXCEPT
        !.order_id = IF rec.order_id = None THEN order_id ELSE @,
        !.cl_ord_id = IF rec.cl_ord_id = None THEN cl_ord_id ELSE @,
        !.orig_cl_ord_id = IF rec.orig_cl_ord_id = None THEN orig ELSE @]

\* OrderRecord::set_value / set_named_field: the target takes the value when
\* the message carries the tag
\* a variant that keeps a value once it is set
set_value_once(target, fields, tag) ==
    IF target # None THEN target
    ELSE IF tag \in DOMAIN fields THEN fields[tag] ELSE target

set_value(target, fields, tag) ==
    IF tag \in DOMAIN fields THEN fields[tag] ELSE target

copy_core_fields(rec, fields) ==
    [rec EXCEPT
        !.symbol = set_value(@, fields, 55),
        !.side = set_value(@, fields, 54),
        !.qty = set_value(@, fields, 38),
        !.currency = set_value(@, fields, 15),
        !.last_qty = set_value(@, fields, 32),
        !.cum_qty = set_value(@, fields, 14),
        !.leaves_qty = set_value(@, fields, 151),
        !.avg_px = set_value(@, fields, 6),
        !.price = set_value(@, fields, 44)]

display_id(rec) ==
    IF rec.order_id # None THEN rec.order_id
    ELSE IF rec.cl_ord_id # None THEN rec.cl_ord_id
    ELSE rec.key

\* format!("UNKNOWN-{}", n)
UnknownKey(n) == "UNKNOWN-" \o ToString(n)

\* the ids of a message in the order resolve_key and note_aliases walk them
IdCandidates(order_id, cl_ord_id, orig) ==
    SelectSeq(<<order_id, cl_ord_id, orig>>, LAMBDA id : id # None)

\* resolve_key: the key, and the value of unknown_counter afterwards
\* a variant that does not look up OrigClOrdID in the alias table
resolve_key_without_orig(als, counter, order_id, cl_ord_id, orig) ==
    LET cands == IdCandidates(order_id, cl_ord_id, None)
        hits == {i \in 1..Len(cands) : cands[i] \in DOMAIN als}
    IN  IF hits # {}
        THEN [key |-> als[cands[SetMin(hits)]], counter |-> counter]
        ELSE IF order_id # None
        THEN [key |-> order_id, counter |-> counter]
        ELSE IF cl_ord_id # None
        THEN [key |-> cl_ord_id, counter |-> counter]
        ELSE [key |-> UnknownKey(counter + 1), counter |-> counter + 1]

\* a variant that takes an OrigClOrdID as key when it is the only id
resolve_key_with_orig_as_key(als, counter, order_id, cl_ord_id, orig) ==
    LET cands == IdCandidates(order_id, cl_ord_id, orig)
        hits == {i \in 1..Len(cands) : cands[i] \in DOMAIN als}
    IN  IF hits # {}
        THEN [key |-> als[cands[SetMin(hits)]], counter |-> counter]
        ELSE IF cands # <<>>
        THEN [key |-> cands[1], counter |-> counter]
        ELSE [key |-> UnknownKey(counter + 1), counter |-> counter + 1]

resolve_key(als, counter, order_id, cl_ord_id, orig) ==
    LET cands == IdCandidates(order_id, cl_ord_id, orig)
        hits == {i \in 1..Len(cands) : cands[i] \in DOMAIN als}
    IN  IF hits # {}
        THEN [key |-> als[cands[SetMin(hits)]], counter |-> counter]
        ELSE IF order_id # None
        THEN [key |-> order_id, counter |-> counter]
        ELSE IF cl_ord_id # None
        THEN [key |-> cl_ord_id, counter |-> counter]
        ELSE [key |-> UnknownKey(counter + 1), counter |-> counter + 1]

\* note_aliases: entry(id).or_insert(key) for each id the message carries
\* a variant that points every id of the message to the key
note_aliases_overwriting(als, key, order_id, cl_ord_id, orig) ==
    LET ids == {id \in {order_id, cl_ord_id, orig} : id # None}
    IN  [id \in DOMAIN als \cup ids |-> IF id \in ids THEN key ELSE als[id]]

note_aliases(als, key, order_id, cl_ord_id, orig) ==
    LET ids == {id \in {order_id, cl_ord_id, orig} : id # None}
    IN  [id \in DOMAIN als \cup ids |-> IF id \in DOMAIN als THEN als[id] ELSE key]

\* position of the first completed record with the key, 0 when there is none
CompletedPosition(key) ==
    LET hits == {i \in 1..Len(completed) : completed[i].key = key}
    IN  IF hits = {} THEN 0 ELSE SetMin(hits)

\* OrderSummary::record_message
record_message(msg) ==
    LET \* the tail of the function: the event and the message are pushed
        \* and a terminal record moves to the completed bucket
        store(key, completed1, terminal1, updated) ==
            IF is_terminal(updated)
            THEN /\ completed' = Append(completed1, updated)
                 /\ orders' = MapRemove(orders, key)
                 /\ terminal_orders' = terminal1 + 1
            ELSE /\ completed' = completed1
                 /\ orders' = MapInsert(orders, key, updated)
                 /\ terminal_orders' = terminal1
        \* the record is merged with the ids and the fields of the message
        absorb(map, key, completed1, terminal1, record) ==
            store(key, completed1, terminal1,
                  [copy_core_fields(merge_ids(record, MapGet(map, 37), MapGet(map, 11),
                                              MapGet(map, 41)), map)
                       EXCEPT !.events = Append(@, OrderEventFromFields(map)),
                              !.messages = Append(@, msg)])
        \* match self.orders.entry(key): occupied, revived from completed, new
        entry(map, key, pos) ==
            IF key \in DOMAIN orders
            THEN /\ total_orders' = total_orders
                 /\ absorb(map, key, completed, terminal_orders, orders[key])
            ELSE IF pos # 0
            THEN /\ total_orders' = total_orders
                 /\ absorb(map, key, SeqRemove(completed, pos),
                           IF is_terminal(completed[pos]) /\ terminal_orders > 0
                           THEN terminal_orders - 1 ELSE terminal_orders,
                           completed[pos])
            ELSE /\ total_orders' = total_orders + 1
                 /\ absorb(map, key, completed, terminal_orders, NewOrderRecord(key))
        resolved(map, r, dict) ==
            /\ unknown_counter' = r.counter
            /\ lookups' = dict.reg.lookups
            /\ next_obj' = dict.reg.next_obj
            /\ aliases' = note_aliases(aliases, r.key, MapGet(map, 37), MapGet(map, 11),
                                       MapGet(map, 41))
            /\ entry(map, r.key, CompletedPosition(r.key))
        parsed(map) ==
            resolved(map,
                     resolve_key(aliases, unknown_counter, MapGet(map, 37),
                                 MapGet(map, 11), MapGet(map, 41)),
                     load_dictionary_with_override(Registry(lookups, next_obj), msg,
                                                   fix_override))
    IN  IF msg = <<>>
        THEN UNCHANGED <<orders, aliases, unknown_counter, completed, total_orders,
                         terminal_orders, fix_override_key, lookups, next_obj>>
        ELSE /\ fix_override_key' = IF fix_override # None /\ fix_override_key = None
                                    THEN fix_override ELSE fix_override_key
             /\ parsed(FieldMap(msg))

\* OrderSummary::render_completed: the completed records are written and
\* the bucket is cleared
render_completed ==
    IF completed = <<>>
    THEN UNCHANGED <<completed, rendered, lookups>>
    ELSE /\ rendered' = rendered \o completed
         /\ lookups' = IF fix_override_key # None
                       THEN clear_override_cache_for(fix_override_key,
                                Registry(lookups, next_obj)).lookups
                       ELSE lookups
         /\ completed' = <<>>

(***************************************************************************)
(* The aggregator under its caller                                         *)
(***************************************************************************)

\* scenario "cancel/replace lifecycle merge"
MsgNew == <<<<35, "D">>, <<11, "ABC">>, <<55, "IBM">>, <<54, "1">>, <<38, "100">>>>
MsgAck == <<<<35, "8">>, <<37, "OID1">>, <<11, "ABC">>, <<150, "0">>, <<39, "0">>,
            <<38, "100">>, <<151, "100">>>>
MsgReplaced == <<<<35, "8">>, <<37, "OID1">>, <<11, "DEF">>, <<41, "ABC">>,
                 <<150, "5">>, <<39, "5">>, <<38, "75">>, <<151, "75">>>>

\* the messages the caller feeds in Spec
Msgs ==
    {MsgNew, MsgAck, MsgReplaced,
     \* fill of the replaced order
     <<<<35, "8">>, <<37, "OID1">>, <<11, "DEF">>, <<150, "F">>, <<39, "2">>,
       <<14, "75">>, <<151, "0">>>>,
     \* a second order known by its OrderID only
     <<<<35, "8">>, <<37, "OID2">>, <<150, "0">>, <<39, "0">>>>,
     \* an execution report that names the second order and the first ClOrdID
     <<<<35, "8">>, <<37, "OID2">>, <<11, "ABC">>, <<150, "1">>, <<39, "1">>>>,
     \* a cancel request that carries an OrigClOrdID only
     <<<<35, "F">>, <<41, "DEF">>>>,
     \* a cancel of the order under its replaced ClOrdID
     <<<<35, "8">>, <<11, "DEF">>, <<41, "ABC">>, <<39, "4">>>>,
     \* a reject of the second order
     <<<<35, "8">>, <<37, "OID2">>, <<150, "8">>, <<39, "8">>>>,
     \* a heartbeat: no order id at all
     <<<<35, "0">>>>,
     \* a line without SOH: parse_fix yields no field
     <<>>}

\* bound: number of messages fed in SpecLifecycle
MaxStatusMsgs == 2

OrdStatusCodes ==
    {"A", "0", "1", "2", "3", "4", "5", "6", "7", "8", "9", "B", "C", "D", "E", "Z"}

\* the messages the caller feeds in SpecLifecycle: one order, every status
StatusMsgs ==
    {<<<<35, "8">>, <<11, "ABC">>, <<39, s>>>> : s \in OrdStatusCodes}
    \cup {<<<<35, "8">>, <<11, "ABC">>, <<150, e>>>> : e \in {"F", "3", "I"}}
    \cup {<<<<35, "BN">>, <<11, "ABC">>, <<1036, a>>>> : a \in {"0", "1", "2", "3", "4", "9"}}
    \cup {<<<<35, "8">>, <<11, "ABC">>, <<151, q>>>> : q \in {"0", "5"}}

NoCall ==
    [op |-> "none", key |-> None, override |-> None, res |-> NoLookup,
     registered |-> <<>>]
\* no expansion was started
NoExpansion ==
    [pc |-> "idle", mode |-> "none", root |-> <<>>, frames |-> <<>>, stack |-> <<>>,
     cache |-> <<>>, warned |-> <<>>, result |-> None]
\* no thread calls the registry
NoThreads == <<>>
NoSegment ==
    [kind |-> "none", n |-> 0, seq |-> NoSeq, payload |-> <<>>,
     pre_next_seq |-> NoSeq, pre_buffer |-> <<>>, pre_out |-> 0,
     flushed |-> FALSE, flush_in |-> <<>>, result |-> "ok"]

RegistryIdle ==
    /\ reg_call = NoCall

PcapIdle ==
    /\ next_seq = NoSeq
    /\ buffer = <<>>
    /\ out = <<>>
    /\ seg = NoSegment

\* the locals of a driver that has not been started
NoDriver == [pc |-> "idle"]

StreamIdle ==
    /\ interrupted = FALSE
    /\ driver = NoDriver
    /\ reader = <<>>
    /\ ctx_out = <<>>

ToolsIdle ==
    /\ dictionary = <<>>
    /\ schema = NoLookup
    /\ checked = <<>>
    /\ report = <<>>
    /\ pretty = <<>>
    /\ StreamIdle
    /\ name_call = <<>>
    /\ expansion = NoExpansion
    /\ threads = NoThreads

SummaryInit ==
    /\ orders = <<>>
    /\ aliases = <<>>
    /\ unknown_counter = 0
    /\ completed = <<>>
    /\ total_orders = 0
    /\ terminal_orders = 0
    /\ fix_override_key = None
    /\ log = <<>>
    /\ rendered = <<>>

Init ==
    /\ SummaryInit
    /\ fix_override \in {None, "FIX42"}
    /\ lookups = <<>>
    /\ next_obj = 1
    /\ RegistryIdle
    /\ PcapIdle
    /\ ToolsIdle

\* the caller hands the next message to record_message
RecordMessage ==
    \E msg \in Msgs :
        /\ Len(log) < MaxMsgs
        /\ record_message(msg)
        /\ log' = Append(log, msg)
        /\ UNCHANGED <<fix_override, rendered, reg_call, pcapVars, toolVars>>

\* the caller flushes the completed orders
RenderCompleted ==
    /\ render_completed
    /\ UNCHANGED <<orders, aliases, unknown_counter, total_orders, terminal_orders,
                   fix_override_key, log, fix_override, next_obj, reg_call, pcapVars, toolVars>>

Next == RecordMessage \/ RenderCompleted

Spec == Init /\ [][Next]_vars

RecordStatusMessage ==
    \E msg \in StatusMsgs :
        /\ Len(log) < MaxStatusMsgs
        /\ record_message(msg)
        /\ log' = Append(log, msg)
        /\ UNCHANGED <<fix_override, rendered, reg_call, pcapVars, toolVars>>

NextLifecycle == RecordStatusMessage \/ RenderCompleted

SpecLifecycle == Init /\ [][NextLifecycle]_vars

(***************************************************************************)
(* Properties of the aggregator                                            *)
(***************************************************************************)

Range(seq) == {seq[i] : i \in 1..Len(seq)}

\* every record the aggregator holds
AllRecords == {orders[k] : k \in DOMAIN orders} \cup Range(completed)

\* the ids (OrderID 37, ClOrdID 11, OrigClOrdID 41) a message carries
IdsOf(msg) == {MapGet(FieldMap(msg), t) : t \in {37, 11, 41}} \ {None}

\* two messages of the log carry a common id
Shares(i, j) == IdsOf(log[i]) \cap IdsOf(log[j]) # {}

\* the messages among the first n of the log that are linked to a message
\* of S through shared ids, directly or through other messages
RECURSIVE Linked(_, _)
Linked(S, n) ==
    LET more == {j \in 1..n : \E i \in S : Shares(i, j)}
    IN  IF more \subseteq S THEN S ELSE Linked(S \cup more, n)

\* no message carries ids of two groups of earlier messages that were not
\* linked to each other before it arrived
NoBridge ==
    \A j \in 1..Len(log) :
        \A a, b \in {i \in 1..(j - 1) : Shares(i, j)} : b \in Linked({a}, j - 1)

\* the records that hold a message
Holders(msg) == {r \in AllRecords : msg \in Range(r.messages)}

\* C1 as stated: whenever a message carries an id that an earlier message
\* carried, both are recorded into one and the same record (only
\* record_message calls: nothing was flushed by render_completed).
C1_ChainInOneRecord ==
    rendered = <<>> =>
        \A i, j \in 1..Len(log) :
            (i < j /\ Shares(i, j)) => Holders(log[i]) \cap Holders(log[j]) # {}

\* C1 amended: when no message bridges two groups of messages that were
\* recorded separately before it arrived, all messages linked through
\* shared ids are held by exactly one record, and total_orders counts one
\* order per group of linked messages plus one per message without any id.
C1_UnbridgedChainInOneRecord ==
    (rendered = <<>> /\ NoBridge) =>
        /\ \A i \in 1..Len(log) : IdsOf(log[i]) # {} =>
               /\ Cardinality(Holders(log[i])) = 1
               /\ \A j \in Linked({i}, Len(log)) : Holders(log[j]) = Holders(log[i])
        /\ total_orders =
               Cardinality({Linked({i}, Len(log)) : i \in {k \in 1..Len(log) : IdsOf(log[k]) # {}}})
               + Cardinality({i \in 1..Len(log) : log[i] # <<>> /\ IdsOf(log[i]) = {}})
        /\ total_orders = Cardinality(AllRecords)

\* a cancel/replace chain (a new ClOrdID that names the prior one as
\* OrigClOrdID) sits in one record next to another order
C1_Witness ==
    /\ rendered = <<>>
    /\ NoBridge
    /\ total_orders = 2
    /\ \E r \in AllRecords :
           /\ Len(r.messages) = 2
           /\ r.events[1].cl_ord_id # None
           /\ r.events[2].cl_ord_id # None
           /\ r.events[2].cl_ord_id # r.events[1].cl_ord_id
           /\ r.events[2].orig_cl_ord_id = r.events[1].cl_ord_id

Scenario3 == <<MsgNew, MsgAck, MsgReplaced>>

\* C2 as stated: after the three messages of the scenario the aggregator
\* holds a single record under key OID1 with final qty 75, a state path
\* ending in Replaced and display_id OID1.
C2_SingleRecordUnderOID1 ==
    log = Scenario3 =>
        /\ DOMAIN orders = {"OID1"}
        /\ completed = <<>>
        /\ orders["OID1"].qty = "75"
        /\ state_path(orders["OID1"])[Len(state_path(orders["OID1"]))] = "Replaced"
        /\ display_id(orders["OID1"]) = "OID1"

\* C2 amended: after the three messages of the scenario the aggregator
\* holds a single record, under the key ABC chosen for the first message,
\* with final qty 75, a state path ending in Replaced and display_id OID1.
C2_SingleRecordUnderABC ==
    log = Scenario3 =>
        /\ DOMAIN orders = {"ABC"}
        /\ completed = <<>>
        /\ total_orders = 1
        /\ orders["ABC"].key = "ABC"
        /\ orders["ABC"].qty = "75"
        /\ state_path(orders["ABC"])[Len(state_path(orders["ABC"]))] = "Replaced"
        /\ display_id(orders["ABC"]) = "OID1"

C2_Witness ==
    /\ log = Scenario3
    /\ Len(orders["ABC"].messages) = 3

\* the last record of a sequence of records that has the key
LastWithKey(recs, key) ==
    recs[SetMax({i \in 1..Len(recs) : recs[i].key = key})]

\* the key under which the last message of the log was recorded
KeyOfStep ==
    LET map == FieldMap(log'[Len(log')])
    IN  resolve_key(aliases, unknown_counter, MapGet(map, 37), MapGet(map, 11),
                    MapGet(map, 41)).key

\* the record with the key after the step
RecordAfter(key) ==
    IF key \in DOMAIN orders' THEN orders'[key]
    ELSE LastWithKey(completed', key)

\* a record_message step for a non-empty message
IsRecordStep == Len(log') = Len(log) + 1 /\ log'[Len(log')] # <<>>

\* C8: a message that resolves to the key of a record that became terminal
\* earlier and was moved to the completed bucket (whether or not
\* render_completed has written it since) continues that record: its events
\* and messages are retained, total_orders is not incremented and
\* terminal_orders is decremented before the message is applied.
C8_LateAmendmentContinuesRecord ==
    [][(/\ IsRecordStep
        /\ KeyOfStep \notin DOMAIN orders
        /\ \E r \in Range(completed) \cup Range(rendered) : r.key = KeyOfStep)
       => LET old == LastWithKey(rendered \o completed, KeyOfStep)
              new == RecordAfter(KeyOfStep)
          IN  /\ total_orders' = total_orders
              /\ new.events = Append(old.events, OrderEventFromFields(FieldMap(log'[Len(log')])))
              /\ new.messages = Append(old.messages, log'[Len(log')])
              /\ terminal_orders' =
                     (terminal_orders - 1) + (IF is_terminal(new) THEN 1 ELSE 0)]_vars

\* C9: the buckets are consistent: no active record is terminal, every
\* completed record is terminal, no key is in both buckets or twice in the
\* completed list, and until render_completed has flushed something
\* terminal_orders = |completed| and total_orders = |active| + |completed|.
C9_BucketsConsistent ==
    /\ \A k \in DOMAIN orders : ~is_terminal(orders[k]) /\ orders[k].key = k
    /\ \A i \in 1..Len(completed) : is_terminal(completed[i])
    /\ \A i \in 1..Len(completed) : completed[i].key \notin DOMAIN orders
    /\ \A i, j \in 1..Len(completed) : completed[i].key = completed[j].key => i = j
    /\ rendered = <<>> =>
           /\ terminal_orders = Len(completed)
           /\ total_orders = Cardinality(DOMAIN orders) + Len(completed)

\* both buckets are occupied and a record has come back from the completed list
C9_Witness ==
    /\ rendered = <<>>
    /\ orders # <<>>
    /\ completed # <<>>
    /\ \E k \in DOMAIN orders : \E i \in 1..Len(orders[k].events) :
           orders[k].events[i].state \in TerminalStates

\* the value of the last ExecAckStatus (1036) a record has seen
LastExecAck(rec) ==
    LET acked == {i \in 1..Len(rec.events) : rec.events[i].exec_ack_status # None}
    IN  IF acked = {} THEN None ELSE rec.events[SetMax(acked)].exec_ack_status

\* the characterisation of a terminal record given by the claim
TerminalByClaim(rec) ==
    \/ /\ rec.events # <<>>
       /\ rec.events[Len(rec.events)].state \in
              {"Filled", "Canceled", "Rejected", "Done for Day", "Expired",
               "Stopped", "Suspended", "Calculated"}
    \/ LastExecAck(rec) \in {"1", "3", "4"}

\* C10: is_terminal holds exactly when the state of the record's last event
\* is one of the eight terminal states or its last ExecAckStatus is 1, 3 or
\* 4; in every other case the record stays in the active map.
C10_TerminalExactly ==
    /\ \A r \in AllRecords : is_terminal(r) <=> TerminalByClaim(r)
    /\ \A k \in DOMAIN orders : ~TerminalByClaim(orders[k])
    /\ \A i \in 1..Len(completed) : TerminalByClaim(completed[i])

\* a record is terminal through an earlier ExecAckStatus although its last
\* state is not terminal
C10_Witness ==
    \E i \in 1..Len(completed) :
        /\ Len(completed[i].events) = 2
        /\ completed[i].events[2].state = "New"
        /\ LastExecAck(completed[i]) = "4"

(***************************************************************************)
(* PCAP extractor: one TCP flow                                            *)
(***************************************************************************)

\* bound: number of TCP segments delivered to the flow
MaxSegments == 4

\* bound: --max-flow-bytes, the limit of the reassembly buffer
MaxFlowBytes == 64

\* parse_delimiter("SOH")
Delimiter == 1

\* the newline that follows every message written
Newline == 10

\* ASCII '0'
Zero == 48

\* A u32 is the pair <<high 16 bits, low 16 bits>>.
Limb == 65536

U32(hi, lo) == <<hi, lo>>

\* u32 < u32
U32Less(a, b) == a[1] < b[1] \/ (a[1] = b[1] /\ a[2] < b[2])

U32LessEq(a, b) == a = b \/ U32Less(a, b)

\* u32::saturating_add(n) for 0 <= n < 65536
saturating_add(a, n) ==
    IF a[1] + ((a[2] + n) \div Limb) >= Limb THEN U32(Limb - 1, Limb - 1)
    ELSE U32(a[1] + ((a[2] + n) \div Limb), (a[2] + n) % Limb)

\* u32::wrapping_add(n) for 0 <= n < 65536
wrapping_add(a, n) ==
    U32((a[1] + ((a[2] + n) \div Limb)) % Limb, (a[2] + n) % Limb)

\* the u32 that lies n below a, modulo 2^32, for 0 <= n < 65536
wrapping_sub(a, n) ==
    IF a[2] >= n THEN U32(a[1], a[2] - n)
    ELSE U32((a[1] + Limb - 1) % Limb, a[2] + Limb - n)

\* (a - b) as usize for b <= a
U32Diff(a, b) == (a[1] - b[1]) * Limb + (a[2] - b[2])

\* Vec<u8> and slices: bytes are numbered from 0
At(bytes, i) == bytes[i + 1]

\* &bytes[from..to]
Slice(bytes, from, to) == SubSeq(bytes, from + 1, to)

\* &bytes[from..]
SliceFrom(bytes, from) == SubSeq(bytes, from + 1, Len(bytes))

\* iter().position(|b| *b == byte): offset of the first such byte, -1 for None
Position(bytes, byte) ==
    LET hits == {i \in 0..(Len(bytes) - 1) : At(bytes, i) = byte}
    IN  IF hits = {} THEN -1 ELSE SetMin(hits)

\* slice::starts_with
StartsWith(bytes, prefix) ==
    Len(bytes) >= Len(prefix) /\ SubSeq(bytes, 1, Len(prefix)) = prefix

is_ascii_digit(b) == b >= Zero /\ b <= Zero + 9

\* parse_decimal: the value of a run of digits, -1 for None
parse_decimal(bytes) ==
    IF \E i \in 1..Len(bytes) : ~is_ascii_digit(bytes[i]) THEN -1
    ELSE LET RECURSIVE val(_)
             val(n) == IF n = 0 THEN 0 ELSE val(n - 1) * 10 + (bytes[n] - Zero)
         IN  val(Len(bytes))

\* a variant that looks for the checksum one byte after the declared body
find_message_end_past_body(buf, delimiter) ==
    IF Len(buf) < 16 THEN -1
    ELSE LET begin_end == Position(buf, delimiter)
             body_len_field_start == begin_end + 1
             rel == Position(SliceFrom(buf, body_len_field_start), delimiter)
             body_len_end == body_len_field_start + rel
             body_len == parse_decimal(Slice(buf, body_len_field_start + 2, body_len_end))
             body_start == body_len_end + 1
             body_end == body_start + body_len + 1
             end_delim_idx == body_end + 6
         IN  IF begin_end = -1 THEN -1
             ELSE IF rel = -1 THEN -1
             ELSE IF body_len_end <= body_len_field_start + 1 THEN -1
             ELSE IF ~StartsWith(SliceFrom(buf, body_len_field_start), <<57, 61>>) THEN -1
             ELSE IF body_len = -1 THEN -1
             ELSE IF body_end + 7 > Len(buf) THEN -1
             ELSE IF ~StartsWith(SliceFrom(buf, body_end), <<49, 48, 61>>) THEN -1
             ELSE IF \E i \in (body_end + 3)..(body_end + 5) : ~is_ascii_digit(At(buf, i)) THEN -1
             ELSE IF At(buf, end_delim_idx) # delimiter THEN -1
             ELSE end_delim_idx

\* find_message_end: offset of the delimiter that ends the first complete
\* message of the buffer, -1 for None
find_message_end(buf, delimiter) ==
    IF Len(buf) < 16 THEN -1
    ELSE LET begin_end == Position(buf, delimiter)
             body_len_field_start == begin_end + 1
             rel == Position(SliceFrom(buf, body_len_field_start), delimiter)
             body_len_end == body_len_field_start + rel
             body_len == parse_decimal(Slice(buf, body_len_field_start + 2, body_len_end))
             body_start == body_len_end + 1
             body_end == body_start + body_len
             end_delim_idx == body_end + 6
         IN  IF begin_end = -1 THEN -1
             ELSE IF rel = -1 THEN -1
             ELSE IF body_len_end <= body_len_field_start + 1 THEN -1
             ELSE IF ~StartsWith(SliceFrom(buf, body_len_field_start), <<57, 61>>) THEN -1
             ELSE IF body_len = -1 THEN -1
             ELSE IF body_end + 7 > Len(buf) THEN -1
             ELSE IF ~StartsWith(SliceFrom(buf, body_end), <<49, 48, 61>>) THEN -1
             ELSE IF \E i \in (body_end + 3)..(body_end + 5) : ~is_ascii_digit(At(buf, i)) THEN -1
             ELSE IF At(buf, end_delim_idx) # delimiter THEN -1
             ELSE end_delim_idx

\* the while loop of flush_complete_messages from the cursor on: the
\* cursor it ends with and the byte strings handed to write_all, in order
RECURSIVE flush_loop(_, _, _)
flush_loop(buf, delimiter, cursor) ==
    LET rel_end == find_message_end(SliceFrom(buf, cursor), delimiter)
        end == cursor + rel_end
    IN  IF rel_end = -1 THEN [cursor |-> cursor, written |-> <<>>]
        ELSE LET rest == flush_loop(buf, delimiter, end + 1)
             IN  [cursor |-> rest.cursor,
                  written |-> <<Append(Slice(buf, cursor, end + 1), Newline)>>
                              \o rest.written]

\* a variant that writes the messages and does not drain the buffer
flush_without_drain(buf, delimiter) ==
    [buffer |-> buf, written |-> flush_loop(buf, delimiter, 0).written]

\* flush_complete_messages: the buffer that remains and the byte strings
\* handed to write_all, in order
flush_complete_messages(buf, delimiter) ==
    LET done == flush_loop(buf, delimiter, 0)
    IN  [buffer |-> IF done.cursor > 0 THEN SliceFrom(buf, done.cursor) ELSE buf,
         written |-> done.written]

\* a variant that reports the overflow and keeps the bytes in the buffer
reassemble_and_emit_without_clear(seq, payload) ==
    LET expected == IF next_seq = NoSeq THEN seq ELSE next_seq
        end == wrapping_add(seq, Len(payload))
        in_order == seq = expected
        future == ~in_order /\ U32Less(expected, seq)
        duplicate == ~in_order /\ ~future /\ U32LessEq(end, expected)
        overlap == U32Diff(expected, seq)
        appended == IF in_order THEN buffer \o payload
                    ELSE buffer \o SliceFrom(payload, overlap)
        advanced == IF in_order THEN wrapping_add(seq, Len(payload))
                    ELSE wrapping_add(expected, Len(payload) - overlap)
        flushed == flush_complete_messages(appended, Delimiter)
    IN  IF future \/ duplicate
        THEN \* return Ok(()) before anything is touched
             /\ UNCHANGED <<next_seq, buffer, out>>
             /\ seg' = [kind |-> "segment", n |-> seg.n + 1, seq |-> seq, payload |-> payload,
                        pre_next_seq |-> next_seq, pre_buffer |-> buffer,
                        pre_out |-> Len(out), flushed |-> FALSE,
                        flush_in |-> <<>>, result |-> "ok"]
        ELSE IF Len(appended) > MaxFlowBytes
        THEN \* return Err(Overflow)
             /\ next_seq' = advanced
             /\ buffer' = appended
             /\ UNCHANGED out
             /\ seg' = [kind |-> "segment", n |-> seg.n + 1, seq |-> seq, payload |-> payload,
                        pre_next_seq |-> next_seq, pre_buffer |-> buffer,
                        pre_out |-> Len(out), flushed |-> FALSE,
                        flush_in |-> <<>>, result |-> "overflow"]
        ELSE /\ next_seq' = advanced
             /\ buffer' = flushed.buffer
             /\ out' = out \o flushed.written
             /\ seg' = [kind |-> "segment", n |-> seg.n + 1, seq |-> seq, payload |-> payload,
                        pre_next_seq |-> next_seq, pre_buffer |-> buffer,
                        pre_out |-> Len(out), flushed |-> TRUE,
                        flush_in |-> appended, result |-> "ok"]

\* reassemble_and_emit for one segment of the flow
reassemble_and_emit(seq, payload) ==
    LET expected == IF next_seq = NoSeq THEN seq ELSE next_seq
        end == wrapping_add(seq, Len(payload))
        in_order == seq = expected
        future == ~in_order /\ U32Less(expected, seq)
        duplicate == ~in_order /\ ~future /\ U32LessEq(end, expected)
        overlap == U32Diff(expected, seq)
        appended == IF in_order THEN buffer \o payload
                    ELSE buffer \o SliceFrom(payload, overlap)
        advanced == IF in_order THEN wrapping_add(seq, Len(payload))
                    ELSE wrapping_add(expected, Len(payload) - overlap)
        flushed == flush_complete_messages(appended, Delimiter)
    IN  IF future \/ duplicate
        THEN \* return Ok(()) before anything is touched
             /\ UNCHANGED <<next_seq, buffer, out>>
             /\ seg' = [kind |-> "segment", n |-> seg.n + 1, seq |-> seq, payload |-> payload,
                        pre_next_seq |-> next_seq, pre_buffer |-> buffer,
                        pre_out |-> Len(out), flushed |-> FALSE,
                        flush_in |-> <<>>, result |-> "ok"]
        ELSE IF Len(appended) > MaxFlowBytes
        THEN \* buffer.clear(); return Err(Overflow)
             /\ next_seq' = advanced
             /\ buffer' = <<>>
             /\ UNCHANGED out
             /\ seg' = [kind |-> "segment", n |-> seg.n + 1, seq |-> seq, payload |-> payload,
                        pre_next_seq |-> next_seq, pre_buffer |-> buffer,
                        pre_out |-> Len(out), flushed |-> FALSE,
                        flush_in |-> <<>>, result |-> "overflow"]
        ELSE /\ next_seq' = advanced
             /\ buffer' = flushed.buffer
             /\ out' = out \o flushed.written
             /\ seg' = [kind |-> "segment", n |-> seg.n + 1, seq |-> seq, payload |-> payload,
                        pre_next_seq |-> next_seq, pre_buffer |-> buffer,
                        pre_out |-> Len(out), flushed |-> TRUE,
                        flush_in |-> appended, result |-> "ok"]

\* main, after the last block: the trailing flush of the flow
flush_at_eof ==
    LET flushed == flush_complete_messages(buffer, Delimiter)
    IN  /\ buffer' = flushed.buffer
        /\ out' = out \o flushed.written
        /\ UNCHANGED next_seq
        /\ seg' = [kind |-> "eof", n |-> seg.n, seq |-> NoSeq, payload |-> <<>>,
                   pre_next_seq |-> next_seq, pre_buffer |-> buffer,
                   pre_out |-> Len(out), flushed |-> TRUE,
                   flush_in |-> buffer, result |-> "ok"]

\* format!("{}", n): the decimal digits of n
RECURSIVE Decimal(_)
Decimal(n) ==
    IF n < 10 THEN <<Zero + n>> ELSE Append(Decimal(n \div 10), Zero + (n % 10))

\* format!("{:03}", n) for n < 1000
Decimal3(n) == <<Zero + (n \div 100), Zero + ((n \div 10) % 10), Zero + (n % 10)>>

\* the sum of the bytes
RECURSIVE ByteSum(_)
ByteSum(bytes) ==
    IF bytes = <<>> THEN 0 ELSE bytes[1] + ByteSum(Tail(bytes))

\* "8=FIX.4.4" followed by the delimiter
BeginField == <<56, 61, 70, 73, 88, 46, 52, 46, 52, Delimiter>>

\* tests::build_fix_message: a message with the right BodyLength and CheckSum
build_fix_message(body) ==
    LET head == BeginField \o <<57, 61>> \o Decimal(Len(body)) \o <<Delimiter>> \o body
    IN  head \o <<49, 48, 61>> \o Decimal3(ByteSum(head) % 256) \o <<Delimiter>>

\* "35=0" followed by the delimiter
HeartbeatBody == <<51, 53, 61, 48, Delimiter>>

Heartbeat == build_fix_message(HeartbeatBody)

\* the heartbeat with CheckSum 000
BadChecksum == SubSeq(Heartbeat, 1, Len(Heartbeat) - 4) \o <<48, 48, 48, Delimiter>>

\* the heartbeat with BodyLength 4 instead of 5
ShortLength ==
    BeginField \o <<57, 61, 52, Delimiter>> \o HeartbeatBody
    \o SubSeq(Heartbeat, Len(Heartbeat) - 6, Len(Heartbeat))

\* the TCP payloads the network delivers
Payloads ==
    {Heartbeat,
     SubSeq(Heartbeat, 1, 10),
     SubSeq(Heartbeat, 11, Len(Heartbeat)),
     BadChecksum,
     Heartbeat \o SubSeq(Heartbeat, 1, 6),
     Heartbeat \o BadChecksum \o SubSeq(Heartbeat, 1, 6),
     ShortLength}

\* sequence numbers of the first segment of the flow: 0xFFFFFFF0 and 5
InitialSeqs == {U32(65535, 65520), U32(0, 5)}

\* sequence numbers of a later segment: behind, at and ahead of next_seq
SeqsAround(expected) ==
    {wrapping_sub(expected, 26), wrapping_sub(expected, 10), expected,
     wrapping_add(expected, 6)}

InitPcap ==
    /\ SummaryInit
    /\ fix_override = None
    /\ lookups = <<>>
    /\ next_obj = 1
    /\ RegistryIdle
    /\ PcapIdle
    /\ ToolsIdle

\* a TCP segment of the flow arrives
Segment ==
    /\ seg.kind # "eof"
    /\ seg.n < MaxSegments
    /\ \E payload \in Payloads :
       \E seq \in (IF next_seq = NoSeq THEN InitialSeqs ELSE SeqsAround(next_seq)) :
           reassemble_and_emit(seq, payload)
    /\ UNCHANGED <<summaryVars, registryVars, toolVars>>

\* the capture ends
Eof ==
    /\ seg.kind # "eof"
    /\ flush_at_eof
    /\ UNCHANGED <<summaryVars, registryVars, toolVars>>

NextPcap == Segment \/ Eof

SpecPcap == InitPcap /\ [][NextPcap]_vars

(***************************************************************************)
(* Properties of the PCAP extractor                                        *)
(***************************************************************************)

\* the byte strings the last call handed to write_all
Written == SubSeq(out, seg.pre_out + 1, Len(out))

\* a written byte string without its last byte
Frame(chunk) == SubSeq(chunk, 1, Len(chunk) - 1)

RECURSIVE Concat(_)
Concat(chunks) ==
    IF chunks = <<>> THEN <<>> ELSE chunks[1] \o Concat(Tail(chunks))

\* the written byte strings of the last call, newlines removed, as one string
WrittenBytes == Concat([i \in 1..Len(Written) |-> Frame(Written[i])])

\* the position the flow expected when the last segment arrived
ExpectedBefore ==
    IF seg.pre_next_seq = NoSeq THEN seg.seq ELSE seg.pre_next_seq

\* seq + len, taken as an unbounded integer, lies beyond 2^32 - 1
EndPastWrap == seg.seq[1] + ((seg.seq[2] + Len(seg.payload)) \div Limb) >= Limb

\* seq + len, taken as an unbounded integer, lies beyond expected
EndBeyondExpected ==
    EndPastWrap \/ U32Less(ExpectedBefore, wrapping_add(seg.seq, Len(seg.payload)))

\* the last call left buffer, next_seq and output as they were
FlowUnchanged ==
    /\ next_seq = seg.pre_next_seq
    /\ buffer = seg.pre_buffer
    /\ Len(out) = seg.pre_out

\* the last call appended the bytes to the stream of the flow (what it did
\* not write out as complete messages is in the buffer); an overflow of the
\* buffer empties it instead
FlowAppended(bytes) ==
    seg.result = "ok" => WrittenBytes \o buffer = seg.pre_buffer \o bytes

\* C3: the four-case rule for a segment: in order (seq = expected): the
\* whole payload is appended and next_seq = seq + len; future (seq >
\* expected): nothing changes; pure retransmit (seq < expected, seq + len <=
\* expected): nothing changes; overlap (seq < expected < seq + len): exactly
\* payload[expected - seq..] is appended and next_seq = seq + len.
C3_FourCaseRule ==
    seg.kind = "segment" =>
        IF seg.seq = ExpectedBefore
        THEN /\ FlowAppended(seg.payload)
             /\ next_seq = wrapping_add(seg.seq, Len(seg.payload))
        ELSE IF U32Less(ExpectedBefore, seg.seq)
        THEN FlowUnchanged
        ELSE IF ~EndBeyondExpected
        THEN FlowUnchanged
        ELSE /\ FlowAppended(SliceFrom(seg.payload, U32Diff(ExpectedBefore, seg.seq)))
             /\ next_seq = wrapping_add(seg.seq, Len(seg.payload))

\* C4: an in-order segment whose seq + len reaches 2^32 is appended and
\* next_seq becomes (seq + len) mod 2^32, the only error being an overflow
\* of the buffer limit; 0xFFFFFFF0 with 32 bytes gives 0x00000010; and a
\* segment whose seq equals a next_seq in the low range is taken in order.
C4_WrapInOrder ==
    /\ (seg.kind = "segment" /\ seg.seq = ExpectedBefore /\ EndPastWrap) =>
           /\ next_seq = U32(0, seg.seq[2] + Len(seg.payload) - Limb)
           /\ FlowAppended(seg.payload)
           /\ seg.result = "overflow" =>
                  Len(seg.pre_buffer) + Len(seg.payload) > MaxFlowBytes
    /\ (seg.kind = "segment" /\ seg.seq = U32(65535, 65520) /\ seg.pre_next_seq = NoSeq
            /\ Len(seg.payload) = 32) =>
           next_seq = U32(0, 16) /\ seg.result = "ok"
    /\ (seg.kind = "segment" /\ seg.pre_next_seq # NoSeq
            /\ seg.seq = seg.pre_next_seq /\ seg.seq[1] = 0) =>
           /\ next_seq = U32(0, seg.seq[2] + Len(seg.payload))
           /\ FlowAppended(seg.payload)

\* the segment after 0xFFFFFFF0 + 32 bytes arrived at 0x00000010 and was
\* taken in order
C4_Witness ==
    /\ seg.kind = "segment"
    /\ seg.n = 2
    /\ seg.pre_next_seq = U32(0, 16)
    /\ seg.seq = U32(0, 16)
    /\ seg.result = "ok"
    /\ next_seq = U32(0, 16 + Len(seg.payload))

\* validator.rs compute_actual_body_length: the bytes from after the SOH
\* that ends the first "9=" up to the SOH of the last SOH "10=", -1 for None
compute_actual_body_length(msg) ==
    LET nines == {i \in 0..(Len(msg) - 2) : At(msg, i) = 57 /\ At(msg, i + 1) = 61}
        len_pos == SetMin(nines)
        sohs == {i \in len_pos..(Len(msg) - 1) : At(msg, i) = 1}
        body_start == SetMin(sohs) + 1
        sums == {i \in 0..(Len(msg) - 4) :
                    /\ At(msg, i) = 1
                    /\ At(msg, i + 1) = 49
                    /\ At(msg, i + 2) = 48
                    /\ At(msg, i + 3) = 61}
        checksum_start == SetMax(sums)
    IN  IF nines = {} THEN -1
        ELSE IF sohs = {} THEN -1
        ELSE IF sums = {} THEN -1
        ELSE IF checksum_start >= body_start THEN checksum_start - body_start + 1
        ELSE -1

\* validator.rs calculate_checksum: the sum of the bytes up to and
\* including the SOH of the last SOH "10=", modulo 256; -1 without one
calculate_checksum(msg) ==
    LET sums == {i \in 0..(Len(msg) - 4) :
                    /\ At(msg, i) = 1
                    /\ At(msg, i + 1) = 49
                    /\ At(msg, i + 2) = 48
                    /\ At(msg, i + 3) = 61}
    IN  IF sums = {} THEN -1
        ELSE ByteSum(Slice(msg, 0, SetMax(sums) + 1)) % 256

\* the fields of a frame: the byte strings between its delimiters
RECURSIVE FieldsOf(_)
FieldsOf(bytes) ==
    IF bytes = <<>> THEN <<>>
    ELSE LET p == Position(bytes, Delimiter)
         IN  IF p = -1 THEN <<bytes>>
             ELSE <<Slice(bytes, 0, p)>> \o FieldsOf(SliceFrom(bytes, p + 1))

\* the value bytes of the first field of the frame that carries the tag
DeclaredValue(frame, tag) ==
    LET fs == FieldsOf(frame)
        hits == {i \in 1..Len(fs) : StartsWith(fs[i], tag \o <<61>>)}
    IN  SliceFrom(fs[SetMin(hits)], Len(tag) + 1)

\* C5: every framed message the extractor writes declares in tag 9 its
\* actual body length and carries in tag 10 the checksum of its bytes.
C5_WrittenFramesValid ==
    \A i \in 1..Len(out) :
        /\ parse_decimal(DeclaredValue(Frame(out[i]), <<57>>))
               = compute_actual_body_length(Frame(out[i]))
        /\ DeclaredValue(Frame(out[i]), <<49, 48>>)
               = Decimal3(calculate_checksum(Frame(out[i])))

\* the frame is: bytes up to a delimiter, "9=" digits delimiter, as many
\* bytes as the digits say, "10=" three digits delimiter
IsEnvelope(frame) ==
    LET d1 == Position(frame, Delimiter)
        d2 == d1 + 1 + Position(SliceFrom(frame, d1 + 1), Delimiter)
        declared == parse_decimal(Slice(frame, d1 + 3, d2))
        trailer == d2 + 1 + declared
    IN  /\ d1 # -1
        /\ d2 # d1
        /\ Slice(frame, d1 + 1, d1 + 3) = <<57, 61>>
        /\ \A i \in (d1 + 3)..(d2 - 1) : is_ascii_digit(At(frame, i))
        /\ Len(frame) = trailer + 7
        /\ Slice(frame, trailer, trailer + 3) = <<49, 48, 61>>
        /\ \A i \in (trailer + 3)..(trailer + 5) : is_ascii_digit(At(frame, i))
        /\ At(frame, trailer + 6) = Delimiter

\* C5 amended: every framed message the extractor writes declares in tag 9
\* the number of bytes between the delimiter that ends the 9= field and the
\* 10= field that ends the message, and its tag 10 is three digits; the
\* checksum is not verified.
C5_WrittenFramesEnveloped ==
    \A i \in 1..Len(out) :
        /\ out[i][Len(out[i])] = Newline
        /\ IsEnvelope(Frame(out[i]))

\* a message with a wrong checksum was written
C5_Witness ==
    \E i \in 1..Len(out) : Frame(out[i]) = BadChecksum

\* C6: flush_complete_messages writes the complete messages at the head of
\* the buffer in order, each followed by one newline, and keeps exactly the
\* rest: written messages ++ remaining buffer = buffer before; a buffer
\* without a complete message at its head is left alone.
C6_FlushKeepsTail ==
    seg.flushed =>
        /\ \A i \in 1..Len(Written) :
               /\ Len(Written[i]) >= 2
               /\ Written[i][Len(Written[i])] = Newline
               /\ find_message_end(
                      Concat([j \in 1..(Len(Written) - i + 1) |->
                                 Frame(Written[i + j - 1])]) \o buffer,
                      Delimiter) = Len(Written[i]) - 2
        /\ WrittenBytes \o buffer = seg.flush_in
        /\ find_message_end(buffer, Delimiter) = -1
        /\ find_message_end(seg.flush_in, Delimiter) = -1 =>
               Written = <<>> /\ buffer = seg.flush_in

\* two messages were written by one flush and a tail stayed in the buffer
C6_Witness ==
    /\ seg.flushed
    /\ Len(Written) = 2
    /\ Written[1] # Written[2]
    /\ buffer # <<>>

(***************************************************************************)
(* Dictionary registry: its callers                                        *)
(***************************************************************************)

\* the schema keys that --xml dictionaries are registered under
RegistryKeys == {"FIX42", "FIX44", "FIX99"}

\* the dictionaries that are registered
Dictionaries == {"custom-a", "custom-b"}

\* the messages that dictionaries are loaded for
RegistryMsgs ==
    {<<<<8, "FIX.4.4">>>>,
     <<<<8, "FIX.4.2">>>>,
     <<<<8, "FIX.9.9">>>>,
     <<<<8, "FIXT.1.1">>, <<1128, "7">>>>}

\* the --fix overrides
Overrides == {"FIX42", "FIX44", "FIX99"}

\* main.rs load_custom_dictionaries: register_fix_dictionary(&key, &dict);
\* the caller notes the object built for the key, its dictionary and how
\* often the key was registered
Register ==
    \E key \in RegistryKeys, xml \in Dictionaries :
        LET times == IF key \in DOMAIN reg_call.registered
                     THEN reg_call.registered[key].times + 1 ELSE 1
            done(r) ==
                /\ lookups' = r.reg.lookups
                /\ next_obj' = r.reg.next_obj
                /\ reg_call' = [op |-> "register", key |-> key, override |-> None,
                                res |-> r.res,
                                registered |-> MapInsert(reg_call.registered, key,
                                    [id |-> r.res.id, xml |-> xml, times |-> times])]
        IN  /\ next_obj <= MaxObjects
            /\ done(register_dictionary(Registry(lookups, next_obj), key, xml))
            /\ UNCHANGED <<summaryVars, pcapVars, toolVars>>

Load ==
    \E msg \in RegistryMsgs :
        LET done(r) ==
                /\ lookups' = r.reg.lookups
                /\ next_obj' = r.reg.next_obj
                /\ reg_call' = [op |-> "load", key |-> detect_schema_key(msg),
                                override |-> None, res |-> r.res,
                                registered |-> reg_call.registered]
        IN  /\ next_obj <= MaxObjects
            /\ done(load_dictionary(Registry(lookups, next_obj), msg))
            /\ UNCHANGED <<summaryVars, pcapVars, toolVars>>

LoadWithOverride ==
    \E msg \in RegistryMsgs, override_key \in Overrides :
        LET done(r) ==
                /\ lookups' = r.reg.lookups
                /\ next_obj' = r.reg.next_obj
                /\ reg_call' = [op |-> "load_with_override",
                                key |-> detect_schema_key(msg),
                                override |-> override_key, res |-> r.res,
                                registered |-> reg_call.registered]
        IN  /\ next_obj <= MaxObjects
            /\ done(load_dictionary_with_override(Registry(lookups, next_obj), msg,
                                                  override_key))
            /\ UNCHANGED <<summaryVars, pcapVars, toolVars>>

InitRegistry ==
    /\ SummaryInit
    /\ fix_override = None
    /\ lookups = <<>>
    /\ next_obj = 1
    /\ RegistryIdle
    /\ PcapIdle
    /\ ToolsIdle

NextRegistry == Register \/ Load \/ LoadWithOverride

SpecRegistry == InitRegistry /\ [][NextRegistry]_vars

(***************************************************************************)
(* Properties of the dictionary registry                                   *)
(***************************************************************************)

\* the composite keys of the cache
CompositeKeys == {k \in DOMAIN lookups : split_once_plus(k) # <<>>}

\* the last call loaded the key alone: load_dictionary of a message of that
\* schema, or an override with the key on a message of that schema
LoadedKey(key) ==
    /\ reg_call.op \in {"load", "load_with_override"}
    /\ reg_call.key = key
    /\ reg_call.override \in {None, key}

\* C7: loading K after register_dictionary(K, d) returns the very object the
\* most recent registration of K built; right after register_dictionary(K,
\* ..) the cache holds no composite entry with K on either side; and a
\* composite entry with a registered K on a side was created after K's
\* most recent registration, from the objects then registered.
C7_LoadReturnsLatestRegistration ==
    /\ \A key \in DOMAIN reg_call.registered :
           /\ LoadedKey(key) => reg_call.res.id = reg_call.registered[key].id
           /\ \A k \in CompositeKeys :
                  /\ split_once_plus(k)[1] = <<key>> =>
                         /\ lookups[k].id > reg_call.registered[key].id
                         /\ lookups[k].xml = reg_call.registered[key].xml
                  /\ split_once_plus(k)[2] = <<key>> =>
                         /\ lookups[k].id > reg_call.registered[key].id
                         /\ lookups[k].fallback.id = reg_call.registered[key].id
    /\ reg_call.op = "register" =>
           \A k \in CompositeKeys :
               /\ split_once_plus(k)[1] # <<reg_call.key>>
               /\ split_once_plus(k)[2] # <<reg_call.key>>

\* a key registered twice was loaded, the second object came back, and a
\* composite entry is cached
C7_Witness ==
    /\ LoadedKey("FIX44")
    /\ "FIX44" \in DOMAIN reg_call.registered
    /\ reg_call.registered["FIX44"].times = 2
    /\ reg_call.res.id = reg_call.registered["FIX44"].id
    /\ reg_call.res.xml = reg_call.registered["FIX44"].xml
    /\ CompositeKeys # {}

(***************************************************************************)
(* Properties of resolve_key and derive_state, seen through record_message *)
(***************************************************************************)

\* the key of the record that the step changed: the record is in the
\* active map afterwards, or it is the one appended to the completed list
StepKey ==
    LET changed == {k \in DOMAIN orders' : k \notin DOMAIN orders \/ orders'[k] # orders[k]}
    IN  IF changed # {} THEN CHOOSE k \in changed : TRUE
        ELSE completed'[Len(completed')].key

\* the OrderID, ClOrdID and OrigClOrdID of the message, None when absent
IdsInOrder(msg) == <<MapGet(FieldMap(msg), 37), MapGet(FieldMap(msg), 11),
                     MapGet(FieldMap(msg), 41)>>

\* the positions of the ids of the message that are in the alias table
Aliased(msg) == {i \in 1..3 : IdsInOrder(msg)[i] # None /\ IdsInOrder(msg)[i] \in DOMAIN aliases}

\* the keys synthesised so far
Synthesised == {"UNKNOWN-" \o ToString(n) : n \in 1..unknown_counter}

\* C18: the key of a message is the alias target of the first of OrderID,
\* ClOrdID, OrigClOrdID that is in the alias table; if none is, the OrderID
\* when present, else the ClOrdID, else a new UNKNOWN-N with N one greater
\* than for the key synthesised before, so that an un-aliased OrigClOrdID
\* alone never becomes a key and no two synthesised keys are equal.
C18_KeyByAliasThenIds ==
    [][IsRecordStep =>
          LET by_claim(ids, hits) ==
                  IF hits # {}
                  THEN /\ StepKey = aliases[ids[SetMin(hits)]]
                       /\ unknown_counter' = unknown_counter
                  ELSE IF ids[1] # None
                  THEN StepKey = ids[1] /\ unknown_counter' = unknown_counter
                  ELSE IF ids[2] # None
                  THEN StepKey = ids[2] /\ unknown_counter' = unknown_counter
                  ELSE /\ StepKey = "UNKNOWN-" \o ToString(unknown_counter + 1)
                       /\ unknown_counter' = unknown_counter + 1
                       /\ StepKey \notin Synthesised
                       /\ StepKey # ids[3]
          IN  by_claim(IdsInOrder(log'[Len(log')]), Aliased(log'[Len(log')]))]_vars

\* C18 witness: a message with an un-aliased OrigClOrdID alone and a
\* message without ids got the keys UNKNOWN-1 and UNKNOWN-2, and a cancel
\* with the OrigClOrdID of the first as ClOrdID was recorded under its alias
C18_SynthesisedAndAliased ==
    /\ Len(log) = 3
    /\ IdsInOrder(log[1]) = <<None, None, "DEF">>
    /\ IdsInOrder(log[2]) = <<None, None, None>>
    /\ IdsInOrder(log[3]) = <<None, "DEF", "ABC">>
    /\ DOMAIN orders = {"UNKNOWN-2"}
    /\ unknown_counter = 2
    /\ Len(completed) = 1
    /\ completed[1].key = "UNKNOWN-1"
    /\ Len(completed[1].messages) = 2

\* bound: number of messages fed in SpecStates
MaxStateMsgs == 2

\* the field with the tag, or no field for None
OptionalField(tag, value) == IF value = None THEN <<>> ELSE <<<<tag, value>>>>

\* the messages the caller feeds in SpecStates: one order, with every
\* combination of an absent, a labelled and an unlabelled OrdStatus, an
\* absent and a labelled ExecType and ExecAckStatus, and an absent, a zero
\* and a non-zero LeavesQty; and with an unlabelled ExecType
StateMsgs ==
    {<<<<35, "8">>, <<11, "ABC">>>>
     \o OptionalField(39, s) \o OptionalField(150, e)
     \o OptionalField(1036, a) \o OptionalField(151, l) :
        s \in {None, "1", "Z"}, e \in {None, "F"}, a \in {None, "1"},
        l \in {None, "0", "5"}}
    \cup {<<<<35, "8">>, <<11, "ABC">>, <<150, "Z">>>> \o OptionalField(1036, a)
              \o OptionalField(151, "0") : a \in {None, "1"}}

RecordStateMessage ==
    \E msg \in StateMsgs :
        /\ Len(log) < MaxStateMsgs
        /\ record_message(msg)
        /\ log' = Append(log, msg)
        /\ UNCHANGED <<fix_override, rendered, reg_call, pcapVars, toolVars>>

NextStates == RecordStateMessage \/ RenderCompleted

SpecStates == Init /\ [][NextStates]_vars

\* the state of a message by the order of precedence: OrdStatus, ExecType,
\* ExecAckStatus, LeavesQty
StateOf(msg) ==
    LET by_precedence(map) ==
            IF label_ord_status_raw(MapGet(map, 39)) # None
            THEN label_ord_status_raw(MapGet(map, 39))
            ELSE IF label_exec_type_raw(MapGet(map, 150)) # None
            THEN label_exec_type_raw(MapGet(map, 150))
            ELSE IF label_exec_ack_status_raw(MapGet(map, 1036)) # None
            THEN label_exec_ack_status_raw(MapGet(map, 1036))
            ELSE IF MapGet(map, 151) = "0"
            THEN "Filled"
            ELSE "Unknown"
    IN  by_precedence(FieldMap(msg))

\* the sequence without the elements that equal their predecessor
WithoutRepeats(states) ==
    LET kept == {i \in 1..Len(states) : i = 1 \/ states[i] # states[i - 1]}
        nth(n) == CHOOSE i \in kept : Cardinality({j \in kept : j <= i}) = n
    IN  [n \in 1..Cardinality(kept) |-> states[nth(n)]]

\* C19: the state derived for each message is the label of OrdStatus when it
\* has one, otherwise the label of ExecType, otherwise the label of
\* ExecAckStatus, otherwise Filled when LeavesQty is "0", otherwise Unknown;
\* the state path of a record is the sequence of the states of its messages
\* with consecutive duplicates removed.
C19_StateByPrecedence ==
    \A r \in AllRecords \cup Range(rendered) :
        /\ Len(r.events) = Len(r.messages)
        /\ \A i \in 1..Len(r.events) : r.events[i].state = StateOf(r.messages[i])
        /\ state_path(r) = WithoutRepeats([i \in 1..Len(r.messages) |-> StateOf(r.messages[i])])

\* C19 witness: a message with an unlabelled OrdStatus and ExecType F was
\* recorded as Trade, and a second with OrdStatus 1 and ExecType F as
\* Partially Filled
C19_PrecedenceSeen ==
    \E r \in AllRecords :
        /\ Len(r.events) = 2
        /\ MapGet(FieldMap(r.messages[1]), 39) = "Z"
        /\ MapGet(FieldMap(r.messages[1]), 150) = "F"
        /\ r.events[1].state = "Trade"
        /\ MapGet(FieldMap(r.messages[2]), 39) = "1"
        /\ MapGet(FieldMap(r.messages[2]), 150) = "F"
        /\ r.events[2].state = "Partially Filled"
        /\ state_path(r) = <<"Trade", "Partially Filled">>

(***************************************************************************)
(* The buffer limit of a flow                                              *)
(***************************************************************************)

\* the bytes of the last segment that the call put behind the buffer: the
\* payload of a segment in order, the part from the expected position on of
\* a segment that overlaps it, nothing of a future or a repeated segment
Taken ==
    IF seg.seq = ExpectedBefore THEN seg.payload
    ELSE IF /\ U32Less(seg.seq, ExpectedBefore)
            /\ U32Less(ExpectedBefore, wrapping_add(seg.seq, Len(seg.payload)))
    THEN SliceFrom(seg.payload, U32Diff(ExpectedBefore, seg.seq))
    ELSE <<>>

\* the last call was a segment whose bytes made the buffer exceed the limit
Exceeds == Len(seg.pre_buffer) + Len(Taken) > MaxFlowBytes

\* C21: after every reassemble_and_emit call the buffer holds at most
\* max_flow_bytes bytes; a call returns the Overflow error exactly when its
\* append makes the buffer exceed the limit, and then the buffer is empty,
\* nothing is written and next_seq is at the advanced value; the segment
\* that follows in order is appended to the emptied buffer and returns by
\* its own size.
C21_OverflowClearsAndContinues ==
    [][/\ Len(buffer') <= MaxFlowBytes
       /\ seg'.kind = "segment" =>
              /\ (seg'.result = "overflow") <=> Exceeds'
              /\ seg'.result = "overflow" =>
                     /\ buffer' = <<>>
                     /\ Len(out') = seg'.pre_out
                     /\ next_seq' = wrapping_add(ExpectedBefore', Len(Taken'))
       /\ (seg.result = "overflow" /\ seg'.kind = "segment" /\ seg'.seq = next_seq) =>
              /\ seg'.pre_buffer = <<>>
              /\ seg'.result = "ok"
              /\ WrittenBytes' \o buffer' = seg'.payload
              /\ next_seq' = wrapping_add(next_seq, Len(seg'.payload))]_vars

\* the segment that followed an overflow in order was appended to the
\* emptied buffer and stays there
C21_AppendedAfterOverflow ==
    /\ seg.kind = "segment"
    /\ seg.n >= 2
    /\ seg.pre_out = 0
    /\ seg.pre_buffer = <<>>
    /\ seg.seq = seg.pre_next_seq
    /\ seg.result = "ok"
    /\ buffer = seg.payload

(***************************************************************************)
(* find_message_end (pcap2fix/src/main.rs) on buffers of its own           *)
(***************************************************************************)

\* the first fields of the buffers, delimiter included: BeginString, a short
\* one, one with another tag, one without tag, an empty one
FirstFields ==
    {BeginField,
     <<56, 61, 70, Delimiter>>,
     <<88, 61, 70, 73, 88, 46, 52, 46, 52, Delimiter>>,
     <<52, 46, 52, Delimiter>>,
     <<Delimiter>>}

\* the second fields, delimiter included: 9=5, 9=05, 9=4, 9=6, 9=0, 9=
\* without digits, 9=x, 9=+5, 8=5, and 9=5 without delimiter
LengthFields ==
    {<<57, 61, 53, Delimiter>>,
     <<57, 61, 48, 53, Delimiter>>,
     <<57, 61, 52, Delimiter>>,
     <<57, 61, 54, Delimiter>>,
     <<57, 61, 48, Delimiter>>,
     <<57, 61, Delimiter>>,
     <<57, 61, 120, Delimiter>>,
     <<57, 61, 43, 53, Delimiter>>,
     <<56, 61, 53, Delimiter>>,
     <<57, 61, 53>>}

\* the bodies: 35=0 with its delimiter, and none
Bodies == {HeartbeatBody, <<>>}

\* the trailers: 10=161 with delimiter, two digits, a letter for a digit,
\* tag 11, no delimiter, none
Trailers ==
    {<<49, 48, 61, 49, 54, 49, Delimiter>>,
     <<49, 48, 61, 49, 54, Delimiter>>,
     <<49, 48, 61, 49, 120, 49, Delimiter>>,
     <<49, 49, 61, 49, 54, 49, Delimiter>>,
     <<49, 48, 61, 49, 54, 49>>,
     <<>>}

\* what follows in the buffer: nothing, or the start of the next message
Rests == {<<>>, <<56, 61, 70, 73, 88>>}

\* the buffers find_message_end is applied to
Buffers ==
    {first \o length \o body \o trailer \o rest :
        first \in FirstFields, length \in LengthFields, body \in Bodies,
        trailer \in Trailers, rest \in Rests}

InitFraming ==
    /\ SummaryInit
    /\ fix_override = None
    /\ lookups = <<>>
    /\ next_obj = 1
    /\ RegistryIdle
    /\ next_seq = NoSeq
    /\ buffer \in Buffers
    /\ out = <<>>
    /\ seg = NoSegment
    /\ ToolsIdle

\* flush_complete_messages asks find_message_end for the buffer
FindMessageEnd ==
    /\ seg = NoSegment
    /\ seg' = [kind |-> "find_message_end", end |-> find_message_end(buffer, Delimiter)]
    /\ UNCHANGED <<next_seq, buffer, out, summaryVars, registryVars, toolVars>>

NextFraming == FindMessageEnd

SpecFraming == InitFraming /\ [][NextFraming]_vars

\* the offsets e such that the prefix of the buffer up to and including e
\* is a FIX envelope: "8=" up to a delimiter, "9=" with one or more digits
\* and a delimiter, as many body bytes as the digits say, "10=" with three
\* digits and a delimiter at e
EnvelopeEnds(buf) ==
    {e \in 0..(Len(buf) - 1) :
        \E d1 \in 2..e : \E d2 \in (d1 + 4)..e :
            /\ Slice(buf, 0, 2) = <<56, 61>>
            /\ At(buf, d1) = Delimiter
            /\ \A i \in 0..(d1 - 1) : At(buf, i) # Delimiter
            /\ Slice(buf, d1 + 1, d1 + 3) = <<57, 61>>
            /\ At(buf, d2) = Delimiter
            /\ \A i \in (d1 + 3)..(d2 - 1) : is_ascii_digit(At(buf, i))
            /\ e = d2 + parse_decimal(Slice(buf, d1 + 3, d2)) + 7
            /\ Slice(buf, e - 6, e - 3) = <<49, 48, 61>>
            /\ \A i \in (e - 3)..(e - 1) : is_ascii_digit(At(buf, i))
            /\ At(buf, e) = Delimiter}

\* find_message_end was applied to the buffer
Framing == seg # NoSegment /\ seg.kind = "find_message_end"

\* C20: find_message_end reports a complete message only for the shortest
\* prefix of the buffer that is a FIX envelope, and no message for every
\* other buffer and for every buffer shorter than 16 bytes.
C20_OnlyShortestEnvelope ==
    Framing =>
        IF Len(buffer) >= 16 /\ EnvelopeEnds(buffer) # {}
        THEN seg.end = SetMin(EnvelopeEnds(buffer))
        ELSE seg.end = -1

(***************************************************************************)
(* Schema compiler (decoder/tag_lookup.rs, FixTagLookup::from_dictionary)  *)
(***************************************************************************)

\* schema.rs FieldRef; required is Some("Y"), Some("N") or None
FieldRef(name, required) == [name |-> name, required |-> required]

\* schema.rs Field; values holds the enumeration codes as byte strings
Field(name, number, field_type, values) ==
    [name |-> name, number |-> number, field_type |-> field_type, values |-> values]

\* schema.rs ComponentDef (and the header and trailer sections)
ComponentDef(name, fields, groups, components) ==
    [name |-> name, fields |-> fields, groups |-> groups, components |-> components]

\* schema.rs GroupDef
GroupDef(name, required, fields, groups, components) ==
    [name |-> name, required |-> required, fields |-> fields, groups |-> groups,
     components |-> components]

\* schema.rs Message; msg_type is the byte string of tag 35
Message(name, msg_type, fields, groups, components) ==
    [name |-> name, msg_type |-> msg_type, fields |-> fields, groups |-> groups,
     components |-> components]

\* the (order, required) pair of vectors the expansion appends to
Expansion(order, required) == [order |-> order, required |-> required]

\* pushes the tag of every known field reference onto order, and onto
\* required when the reference says required="Y"
append_field_refs(refs, name_to_tag, acc) ==
    LET RECURSIVE push(_, _)
        push(i, a) ==
            IF i > Len(refs) THEN a
            ELSE IF refs[i].name \notin DOMAIN name_to_tag THEN push(i + 1, a)
            ELSE push(i + 1,
                      Expansion(Append(a.order, name_to_tag[refs[i].name]),
                                IF refs[i].required = "Y"
                                THEN Append(a.required, name_to_tag[refs[i].name])
                                ELSE a.required))
    IN  push(1, acc)

RECURSIVE append_component_fields(_, _, _, _, _)
RECURSIVE append_group_fields(_, _, _, _, _)

\* depth-first expansion of a component; a component already on the stack
\* and a component that is not defined are skipped
append_component_fields(name, components, name_to_tag, stack, acc) ==
    IF \E i \in 1..Len(stack) : stack[i] = name THEN acc
    ELSE IF name \notin DOMAIN components THEN acc
    ELSE LET comp == components[name]
             inner == Append(stack, name)
             RECURSIVE subs(_, _)
             subs(i, a) ==
                 IF i > Len(comp.components) THEN a
                 ELSE subs(i + 1,
                           append_component_fields(comp.components[i].name, components,
                                                   name_to_tag, inner, a))
             RECURSIVE groups(_, _)
             groups(i, a) ==
                 IF i > Len(comp.groups) THEN a
                 ELSE groups(i + 1,
                             append_group_fields(comp.groups[i], components,
                                                 name_to_tag, inner, a))
         IN  groups(1, subs(1, append_field_refs(comp.fields, name_to_tag, acc)))

\* the fields of a group, of its components and of its nested groups
append_group_fields(group, components, name_to_tag, stack, acc) ==
    LET RECURSIVE comps(_, _)
        comps(i, a) ==
            IF i > Len(group.components) THEN a
            ELSE comps(i + 1,
                       append_component_fields(group.components[i].name, components,
                                               name_to_tag, stack, a))
        RECURSIVE subs(_, _)
        subs(i, a) ==
            IF i > Len(group.groups) THEN a
            ELSE subs(i + 1,
                      append_group_fields(group.groups[i], components, name_to_tag,
                                          stack, a))
    IN  subs(1, comps(1, append_field_refs(group.fields, name_to_tag, acc)))

\* values.retain(|v| seen.insert(*v)): the first occurrence of each value
dedupe(values) ==
    LET RECURSIVE pick(_)
        pick(i) ==
            IF i > Len(values) THEN <<>>
            ELSE IF \E j \in 1..(i - 1) : values[j] = values[i] THEN pick(i + 1)
            ELSE <<values[i]>> \o pick(i + 1)
    IN  pick(1)

\* the canonical field order and the required tags of a message: header,
\* fields, components, groups, trailer; only required is de-duplicated
expand_message_fields(msg, components, name_to_tag) ==
    LET RECURSIVE comps(_, _)
        comps(i, a) ==
            IF i > Len(msg.components) THEN a
            ELSE comps(i + 1,
                       append_component_fields(msg.components[i].name, components,
                                               name_to_tag, <<>>, a))
        RECURSIVE groups(_, _)
        groups(i, a) ==
            IF i > Len(msg.groups) THEN a
            ELSE groups(i + 1,
                        append_group_fields(msg.groups[i], components, name_to_tag,
                                            <<>>, a))
        header == append_component_fields("Header", components, name_to_tag, <<>>,
                                          Expansion(<<>>, <<>>))
        body == groups(1, comps(1, append_field_refs(msg.fields, name_to_tag, header)))
        done(a) == Expansion(a.order, dedupe(a.required))
    IN  done(append_component_fields("Trailer", components, name_to_tag, <<>>, body))

\* Option::None for a GroupSpec
NoGroupSpec == [count_tag |-> 0]

\* GroupSpec: entry_tag_set and entry_pos are the set and the index of entry_order
GroupSpec(name, count_tag, delim, entry_order, nested) ==
    [name |-> name, count_tag |-> count_tag, delim |-> delim,
     entry_order |-> entry_order, nested |-> nested]

\* the entry order and the nested specs a group spec is built from
Entry(order, nested) == [order |-> order, nested |-> nested]

\* order.push(spec.count_tag); nested.insert(spec.count_tag, spec) for Some(spec)
push_nested(a, spec) ==
    IF spec.count_tag = 0 THEN a
    ELSE Entry(Append(a.order, spec.count_tag), MapInsert(a.nested, spec.count_tag, spec))

RECURSIVE build_group_spec(_, _, _, _)
RECURSIVE append_component_fields_for_spec(_, _, _, _, _)

\* None when the group's name is not a field; otherwise the spec of the
\* group with the specs of the groups nested in it
build_group_spec(group, components, name_to_tag, stack) ==
    IF group.name \notin DOMAIN name_to_tag THEN NoGroupSpec
    ELSE LET count_tag == name_to_tag[group.name]
             delim == IF group.fields # <<>> /\ group.fields[1].name \in DOMAIN name_to_tag
                      THEN name_to_tag[group.fields[1].name]
                      ELSE count_tag
             own == append_field_refs(group.fields, name_to_tag, Expansion(<<>>, <<>>))
             RECURSIVE comps(_, _)
             comps(i, a) ==
                 IF i > Len(group.components) THEN a
                 ELSE comps(i + 1,
                            append_component_fields_for_spec(group.components[i].name,
                                                             components, name_to_tag,
                                                             stack, a))
             RECURSIVE subs(_, _)
             subs(i, a) ==
                 IF i > Len(group.groups) THEN a
                 ELSE subs(i + 1,
                           push_nested(a, build_group_spec(group.groups[i], components,
                                                           name_to_tag, stack)))
             done(a) == GroupSpec(group.name, count_tag, delim, dedupe(a.order), a.nested)
         IN  done(subs(1, comps(1, Entry(own.order, <<>>))))

\* the fields of a component referenced from a group, with the specs of
\* the groups the component holds; stack is the set of components entered
append_component_fields_for_spec(name, components, name_to_tag, stack, acc) ==
    IF name \in stack THEN acc
    ELSE IF name \notin DOMAIN components THEN acc
    ELSE LET comp == components[name]
             inner == stack \cup {name}
             own == append_field_refs(comp.fields, name_to_tag,
                                      Expansion(acc.order, <<>>))
             RECURSIVE subs(_, _)
             subs(i, a) ==
                 IF i > Len(comp.components) THEN a
                 ELSE subs(i + 1,
                           append_component_fields_for_spec(comp.components[i].name,
                                                            components, name_to_tag,
                                                            inner, a))
             RECURSIVE groups(_, _)
             groups(i, a) ==
                 IF i > Len(comp.groups) THEN a
                 ELSE groups(i + 1,
                             push_nested(a, build_group_spec(comp.groups[i], components,
                                                             name_to_tag, inner)))
         IN  groups(1, subs(1, Entry(own.order, acc.nested)))

\* the specs of the message's groups by count tag, then those of the groups
\* of every component for count tags not yet present (the components are
\* visited in the order of the hash map: any of them may come first)
collect_group_specs(groups, components, name_to_tag) ==
    LET own == [i \in 1..Len(groups) |->
                   build_group_spec(groups[i], components, name_to_tag, {})]
        direct == {i \in 1..Len(groups) : own[i].count_tag # 0}
        reachable ==
            {s \in UNION {{build_group_spec(components[c].groups[i], components,
                                            name_to_tag, {}) :
                              i \in 1..Len(components[c].groups)} :
                             c \in DOMAIN components} : s.count_tag # 0}
        tags == {own[i].count_tag : i \in direct} \cup {s.count_tag : s \in reachable}
    IN  [t \in tags |->
            IF \E i \in direct : own[i].count_tag = t
            THEN own[SetMax({i \in direct : own[i].count_tag = t})]
            ELSE CHOOSE s \in reachable : s.count_tag = t]

\* collect_memberships: every entry tag of the spec belongs to owner, the
\* count tag of a nested spec to itself, the entry tags of a nested spec to
\* that spec (two nested specs that share a tag: either may win)
RECURSIVE collect_memberships(_, _)
collect_memberships(spec, owner) ==
    LET inner(n) == collect_memberships(spec.nested[n], n)
        deep == UNION {DOMAIN inner(n) : n \in DOMAIN spec.nested}
    IN  [t \in {spec.entry_order[i] : i \in 1..Len(spec.entry_order)}
               \cup DOMAIN spec.nested \cup deep |->
            IF t \in deep
            THEN inner(CHOOSE n \in DOMAIN spec.nested : t \in DOMAIN inner(n))[t]
            ELSE IF t \in DOMAIN spec.nested THEN t
            ELSE owner]

\* the specs collect_group_specs builds, those shadowed by an earlier
\* spec of the same count tag included
all_group_specs(groups, components, name_to_tag) ==
    {s \in {build_group_spec(groups[i], components, name_to_tag, {}) :
               i \in 1..Len(groups)}
           \cup UNION {{build_group_spec(components[c].groups[i], components,
                                         name_to_tag, {}) :
                           i \in 1..Len(components[c].groups)} :
                          c \in DOMAIN components} : s.count_tag # 0}

\* the second result of collect_group_specs: the memberships of every spec
\* built (specs that share a tag: either may win)
group_membership(groups, components, name_to_tag) ==
    LET specs == all_group_specs(groups, components, name_to_tag)
        of(s) == collect_memberships(s, s.count_tag)
    IN  [t \in UNION {DOMAIN of(s) : s \in specs} |->
            of(CHOOSE s \in specs : t \in DOMAIN of(s))[t]]

\* MessageDef: the canonical field order, the required tags, the groups
\* and the group membership of the tags
MessageDef(msg, components, name_to_tag) ==
    LET expanded(e) ==
            [field_order |-> e.order, required |-> e.required,
             groups |-> collect_group_specs(msg.groups, components, name_to_tag),
             group_membership |-> group_membership(msg.groups, components, name_to_tag)]
    IN  expanded(expand_message_fields(msg, components, name_to_tag))

\* the message definitions by MsgType; a later message replaces an earlier
\* one of the same type
build_message_defs(messages, components, name_to_tag) ==
    [t \in {messages[i].msg_type : i \in 1..Len(messages)} |->
        MessageDef(messages[SetMax({i \in 1..Len(messages) : messages[i].msg_type = t})],
                   components, name_to_tag)]

\* the count tag and the entry tags of a spec and of the specs nested in it
RECURSIVE walk(_)
walk(spec) ==
    {spec.count_tag} \cup {spec.entry_order[i] : i \in 1..Len(spec.entry_order)}
    \cup UNION {walk(spec.nested[t]) : t \in DOMAIN spec.nested}

collect_repeatable_from_specs(messages) ==
    UNION {UNION {walk(messages[m].groups[t]) : t \in DOMAIN messages[m].groups} :
              m \in DOMAIN messages}

\* FixTagLookup::from_dictionary
from_dictionary(dict, key) ==
    LET items == dict.fields
        last(n) == items[SetMax({i \in 1..Len(items) : items[i].number = n})]
        named(s) == items[SetMax({i \in 1..Len(items) : items[i].name = s})]
        numbers == {items[i].number : i \in 1..Len(items)}
        name_to_tag == [s \in {items[i].name : i \in 1..Len(items)} |-> named(s).number]
        comps == dict.components
        component_map ==
            ("Trailer" :> dict.trailer) @@ ("Header" :> dict.header)
            @@ [c \in {comps[i].name : i \in 1..Len(comps)} |->
                   comps[SetMax({i \in 1..Len(comps) : comps[i].name = c})]]
        compiled(messages) ==
            [schema_key |-> key,
             tag_to_name |-> [n \in numbers |-> last(n).name],
             enum_map |-> [n \in {x \in numbers : last(x).values # {}} |-> last(n).values],
             field_types |-> [n \in numbers |-> last(n).field_type],
             messages |-> messages,
             repeatable_tags |-> collect_repeatable_from_specs(messages),
             trailer_order |->
                 dedupe(append_component_fields("Trailer", component_map, name_to_tag,
                                                <<>>, Expansion(<<>>, <<>>)).order),
             fallback |-> NoLookup,
             fallback_role |-> None]
    IN  compiled(build_message_defs(dict.messages, component_map, name_to_tag))

(***************************************************************************)
(* Message validator (decoder/fixparser.rs, decoder/validator.rs)          *)
(***************************************************************************)

\* Option::Some; Option::None is the empty sequence
Some(x) == <<x>>

\* the accessors of FixTagLookup: the primary first, then the fallback chain
RECURSIVE enums_for(_, _)
enums_for(dict, tag) ==
    IF tag \in DOMAIN dict.enum_map THEN Some(dict.enum_map[tag])
    ELSE IF dict.fallback # NoLookup THEN enums_for(dict.fallback, tag)
    ELSE <<>>

RECURSIVE field_type(_, _)
field_type(dict, tag) ==
    IF tag \in DOMAIN dict.field_types THEN Some(dict.field_types[tag])
    ELSE IF dict.fallback # NoLookup THEN field_type(dict.fallback, tag)
    ELSE <<>>

RECURSIVE message_def(_, _)
message_def(dict, msg_type) ==
    IF msg_type \in DOMAIN dict.messages THEN Some(dict.messages[msg_type])
    ELSE IF dict.fallback # NoLookup THEN message_def(dict.fallback, msg_type)
    ELSE <<>>

RECURSIVE is_repeatable(_, _)
is_repeatable(dict, tag) ==
    \/ tag \in dict.repeatable_tags
    \/ dict.fallback # NoLookup /\ is_repeatable(dict.fallback, tag)

\* fixparser.rs FieldValue
FieldValue(tag, value) == [tag |-> tag, value |-> value]

\* str::parse for u32 and usize: an optional '+' and at least one digit,
\* -1 for Err (the values of the model stay far below the overflow)
parse_unsigned(bytes) ==
    LET digits == IF bytes # <<>> /\ bytes[1] = 43 THEN Tail(bytes) ELSE bytes
    IN  IF digits = <<>> THEN -1 ELSE parse_decimal(digits)

\* parse_fix: the fragments between SOH bytes that have a '=' after a tag
\* number, in order; nothing when the message holds no SOH
parse_fix(msg) ==
    LET fragments == FieldsOf(msg)
        RECURSIVE collect(_)
        collect(i) ==
            IF i > Len(fragments) THEN <<>>
            ELSE LET eq == Position(fragments[i], 61)
                 IN  IF eq = -1 THEN collect(i + 1)
                     ELSE IF parse_unsigned(Slice(fragments[i], 0, eq)) = -1
                          THEN collect(i + 1)
                     ELSE <<FieldValue(parse_unsigned(Slice(fragments[i], 0, eq)),
                                       SliceFrom(fragments[i], eq + 1))>>
                          \o collect(i + 1)
    IN  IF Position(msg, Delimiter) = -1 THEN <<>> ELSE collect(1)

\* format!(fmt, args...): the message text with the values it displays
Error(fmt, args) == <<fmt, args>>

\* an error with the tag it is indexed under in tag_errors; tag 0 when the
\* error goes to the flat list only
Finding(err, tag) == [err |-> err, tag |-> tag]

\* the ValidationReport that the findings, in the order pushed, make up
Report(findings) ==
    [errors |-> [i \in 1..Len(findings) |-> findings[i].err],
     tag_errors |->
        [t \in {findings[i].tag : i \in 1..Len(findings)} \ {0} |->
            LET RECURSIVE under(_)
                under(i) ==
                    IF i > Len(findings) THEN <<>>
                    ELSE IF findings[i].tag = t
                         THEN <<findings[i].err>> \o under(i + 1)
                    ELSE under(i + 1)
            IN  under(1)]]

\* build_field_map: (field_map, seen, duplicates)
build_field_map(fields, dict) ==
    LET RECURSIVE dup(_)
        dup(i) ==
            IF i > Len(fields) THEN <<>>
            ELSE IF (\E j \in 1..(i - 1) : fields[j].tag = fields[i].tag)
                    /\ ~is_repeatable(dict, fields[i].tag)
                 THEN <<fields[i].tag>> \o dup(i + 1)
            ELSE dup(i + 1)
        seen == {fields[i].tag : i \in 1..Len(fields)}
    IN  [field_map |-> [t \in seen |->
                           fields[SetMax({i \in 1..Len(fields) : fields[i].tag = t})].value],
         seen |-> seen,
         duplicates |-> dup(1)]

\* validate_msg_type: (errors, Option<&MessageDef>)
validate_msg_type(field_map, dict) ==
    IF 35 \notin DOMAIN field_map
    THEN [errors |-> <<Finding(Error("Missing required tag 35 (MsgType)", <<>>), 0)>>,
          def |-> <<>>]
    ELSE IF message_def(dict, field_map[35]) # <<>>
         THEN [errors |-> <<>>, def |-> message_def(dict, field_map[35])]
    ELSE [errors |-> <<Finding(Error("Unknown MsgType: {}", <<field_map[35]>>), 0)>>,
          def |-> <<>>]

\* a variant that asks the primary layer only
field_name_primary_only(dict, tag) ==
    IF tag \in DOMAIN dict.tag_to_name THEN dict.tag_to_name[tag]
    ELSE ToString(tag)

RECURSIVE field_name(_, _)
\* FixTagLookup::field_name
field_name(dict, tag) ==
    IF tag \in DOMAIN dict.tag_to_name THEN dict.tag_to_name[tag]
    ELSE IF dict.fallback # NoLookup THEN field_name(dict.fallback, tag)
    ELSE ToString(tag)

validate_required_fields(required, seen_tags, dict) ==
    LET RECURSIVE missing(_)
        missing(i) ==
            IF i > Len(required) THEN <<>>
            ELSE IF required[i] \notin seen_tags
                 THEN <<Finding(Error("Missing required tag {} ({})",
                                      <<required[i], field_name(dict, required[i])>>),
                                required[i])>> \o missing(i + 1)
            ELSE missing(i + 1)
    IN  missing(1)

\* str::parse::<i64>(): an optional sign and at least one digit
parse_i64_is_ok(value) ==
    LET digits == IF value # <<>> /\ value[1] \in {43, 45} THEN Tail(value) ELSE value
    IN  digits # <<>> /\ parse_decimal(digits) # -1

\* is_valid_type for the types the dictionaries of the model use: the
\* integer types, BOOLEAN, CHAR and the string-like types
is_valid_type(value, type) ==
    CASE type \in {"INT", "LENGTH", "NUMINGROUP", "SEQNUM", "DAYOFMONTH"} ->
            parse_i64_is_ok(value)
      [] type = "BOOLEAN" -> value \in {<<89>>, <<78>>}
      [] type = "CHAR" -> Len(value) = 1
      [] OTHER -> TRUE

validate_field_enums_and_types(fields, dict) ==
    LET enum(f) ==
            IF enums_for(dict, f.tag) # <<>> /\ f.value \notin enums_for(dict, f.tag)[1]
            THEN <<Finding(Error("Invalid enum value '{}'", <<f.value>>), f.tag)>>
            ELSE <<>>
        type(f) ==
            IF field_type(dict, f.tag) # <<>>
               /\ ~is_valid_type(f.value, field_type(dict, f.tag)[1])
            THEN <<Finding(Error("Invalid type: expected {}, got '{}'",
                                 <<field_type(dict, f.tag)[1], f.value>>), f.tag)>>
            ELSE <<>>
        RECURSIVE each(_)
        each(i) ==
            IF i > Len(fields) THEN <<>>
            ELSE enum(fields[i]) \o type(fields[i]) \o each(i + 1)
    IN  each(1)

\* validate_field_ordering: a tag of expected_order whose index (the last
\* one, when the order lists it twice) lies below that of the tag before
validate_field_ordering(fields, expected_order) ==
    LET known == {expected_order[i] : i \in 1..Len(expected_order)}
        order_index(t) == SetMax({i \in 1..Len(expected_order) : expected_order[i] = t}) - 1
        RECURSIVE scan(_, _)
        scan(i, last_index) ==
            IF i > Len(fields) THEN <<>>
            ELSE IF fields[i].tag \notin known THEN scan(i + 1, last_index)
            ELSE (IF order_index(fields[i].tag) < last_index
                  THEN <<Finding(Error("Tag {} out of order", <<fields[i].tag>>),
                                 fields[i].tag)>>
                  ELSE <<>>)
                 \o scan(i + 1, order_index(fields[i].tag))
    IN  scan(1, -1)

\* format!("{:03}", n) for the values calculate_checksum returns
format_03(n) ==
    IF n < 0 THEN <<45, Zero + (((-n) \div 10) % 10), Zero + ((-n) % 10)>>
    ELSE Decimal3(n)

validate_checksum_field(msg, field_map) ==
    IF 10 \notin DOMAIN field_map
    THEN <<Finding(Error("Missing required checksum tag 10", <<>>), 0)>>
    ELSE IF format_03(calculate_checksum(msg)) # field_map[10]
         THEN <<Finding(Error("Checksum mismatch: got {}, expected {}",
                              <<field_map[10], format_03(calculate_checksum(msg))>>), 10)>>
    ELSE <<>>

validate_body_length(msg, field_map) ==
    IF 9 \notin DOMAIN field_map
    THEN <<Finding(Error("Missing required BodyLength tag 9", <<>>), 0)>>
    ELSE IF parse_unsigned(field_map[9]) = -1
         THEN <<Finding(Error("Invalid BodyLength value '{}'", <<field_map[9]>>), 0)>>
    ELSE IF compute_actual_body_length(msg) = -1
         THEN <<Finding(Error("Unable to compute BodyLength from message", <<>>), 0)>>
    ELSE IF parse_unsigned(field_map[9]) # compute_actual_body_length(msg)
         THEN <<Finding(Error("BodyLength mismatch: got {}, expected {}",
                              <<parse_unsigned(field_map[9]),
                                compute_actual_body_length(msg)>>), 9)>>
    ELSE <<>>

\* validate_fix_message: the duplicate and MsgType checks, and the other
\* checks when the MsgType resolves to a message definition
validate_fix_message(msg, dict) ==
    LET duplicates(built) ==
            [i \in 1..Len(built.duplicates) |->
                Finding(Error("Duplicate tag {} encountered", <<built.duplicates[i]>>),
                        built.duplicates[i])]
        checks(fields, built, msg_type) ==
            IF msg_type.def = <<>>
            THEN Report(duplicates(built) \o msg_type.errors)
            ELSE Report(duplicates(built) \o msg_type.errors
                        \o validate_required_fields(msg_type.def[1].required,
                                                    built.seen, dict)
                        \o validate_body_length(msg, built.field_map)
                        \o validate_field_enums_and_types(fields, dict)
                        \o validate_field_ordering(fields, msg_type.def[1].field_order)
                        \o validate_checksum_field(msg, built.field_map))
        mapped(fields, built) ==
            checks(fields, built, validate_msg_type(built.field_map, dict))
        parsed(fields) == mapped(fields, build_field_map(fields, dict))
    IN  parsed(parse_fix(msg))

(***************************************************************************)
(* Prettifier (decoder/prettifier.rs, prettify_with_report)                *)
(***************************************************************************)

\* layout.rs: the width of the tag column and the indent of a top-level line
TAG_WIDTH == 4

BASE_INDENT == 2

ENTRY_FIELD_INDENT == TAG_WIDTH + 1

\* One line of the rendering without its colours: kind is "field",
\* "missing", "group" or "warning"; errors are the texts joined behind it.
Line(kind, indent, tag, name, value, errors) ==
    [kind |-> kind, indent |-> indent, tag |-> tag, name |-> name, value |-> value,
     errors |-> errors]

\* annotations.get(&tag), the empty list for None
errors_of(annotations, tag) ==
    IF tag \in DOMAIN annotations THEN annotations[tag] ELSE <<>>

\* "{indent}{tag:4} ({name}): {value}" and the errors of the tag
write_field_line(dict, field, annotations, indent_spaces) ==
    <<Line("field", indent_spaces, field.tag, field_name(dict, field.tag), field.value,
           errors_of(annotations, field.tag))>>

\* "{indent}{tag:4} ({name}): {errors}", "Missing" when there are no errors
write_missing_line(dict, tag, errors) ==
    <<Line("missing", BASE_INDENT, tag, field_name(dict, tag), <<>>,
           IF errors = <<>> THEN <<Error("Missing", <<>>)>> ELSE errors)>>

\* GroupRenderer
GroupRenderer(dict, annotations, msg_def, fields) ==
    [dict |-> dict, annotations |-> annotations, msg_def |-> msg_def, fields |-> fields]

\* what a render call appended and how many fields it consumed
Rendered(lines, consumed) == [lines |-> lines, consumed |-> consumed]

RECURSIVE render_group(_, _, _, _)
RECURSIVE render_group_entry(_, _, _, _, _)

\* render_group: the count line, the entries up to the declared count, and
\* a missing line or a warning when fewer entries were found; fields are
\* numbered from 1
render_group(r, start_idx, spec, indent_spaces) ==
    LET expected == IF parse_unsigned(r.fields[start_idx].value) = -1 THEN 0
                    ELSE parse_unsigned(r.fields[start_idx].value)
        stop(entries, consumed, lines) ==
            Rendered(lines \o
                     (IF entries = expected THEN <<>>
                      ELSE IF errors_of(r.annotations, spec.count_tag) # <<>>
                           THEN write_missing_line(r.dict, spec.count_tag,
                                                   errors_of(r.annotations, spec.count_tag))
                      ELSE <<Line("warning", indent_spaces + 2, spec.count_tag, spec.name,
                                  <<expected, entries>>, <<>>)>>),
                     consumed)
        RECURSIVE entries_from(_, _, _, _)
        entries_from(idx, entries, consumed, lines) ==
            LET entered(e) ==
                    entries_from(idx + e.consumed, entries + 1,
                                 idx + e.consumed - start_idx, lines \o e.lines)
            IN  IF idx > Len(r.fields) \/ entries >= expected
                THEN stop(entries, consumed, lines)
                ELSE IF r.fields[idx].tag # spec.delim
                THEN IF r.fields[idx].tag \in DOMAIN r.msg_def.group_membership
                        /\ r.msg_def.group_membership[r.fields[idx].tag] = spec.count_tag
                     THEN entries_from(idx + 1, entries, idx + 1 - start_idx,
                                       lines \o write_field_line(r.dict, r.fields[idx],
                                                                 r.annotations,
                                                                 indent_spaces + ENTRY_FIELD_INDENT))
                     ELSE stop(entries, consumed, lines)
                ELSE entered(render_group_entry(r, idx, spec, indent_spaces, entries + 1))
    IN  entries_from(start_idx + 1, 0, 0,
                     write_field_line(r.dict, r.fields[start_idx], r.annotations,
                                      indent_spaces))

\* render_group_entry: the "Group N" divider and the fields of one entry,
\* up to the next delimiter tag or the first tag outside the group
render_group_entry(r, start_idx, spec, indent_spaces, entry_idx) ==
    LET pos(tag) == (CHOOSE i \in 1..Len(spec.entry_order) : spec.entry_order[i] = tag) - 1
        RECURSIVE fields_from(_, _, _)
        fields_from(idx, last_pos, lines) ==
            LET tag == r.fields[idx].tag
                nested(n) ==
                    fields_from(idx + (IF n.consumed > 1 THEN n.consumed ELSE 1), last_pos,
                                lines \o n.lines)
            IN  IF idx > Len(r.fields) THEN Rendered(lines, idx - start_idx)
                ELSE IF tag = spec.delim /\ idx # start_idx
                THEN Rendered(lines, idx - start_idx)
                ELSE IF tag \in DOMAIN spec.nested
                THEN nested(render_group(r, idx, spec.nested[tag],
                                         indent_spaces + ENTRY_FIELD_INDENT))
                ELSE IF \E i \in 1..Len(spec.entry_order) : spec.entry_order[i] = tag
                THEN fields_from(idx + 1, pos(tag),
                                 lines
                                 \o (IF pos(tag) < last_pos
                                        /\ errors_of(r.annotations, tag) # <<>>
                                     THEN write_missing_line(r.dict, tag,
                                                             errors_of(r.annotations, tag))
                                     ELSE <<>>)
                                 \o write_field_line(r.dict, r.fields[idx], r.annotations,
                                                     indent_spaces + ENTRY_FIELD_INDENT))
                ELSE Rendered(lines, idx - start_idx)
    IN  fields_from(start_idx, -1,
                    <<Line("group", indent_spaces, entry_idx, "Group", <<>>, <<>>)>>)

\* prettify_with_report: the lines of the fields in the order of the
\* message, then a missing line for every annotated tag that no top-level
\* line showed; annotations is the tag_errors of the report (empty without
\* a report) and order the order in which the hash map yields its tags
prettify_with_report(msg, dict, annotations, order) ==
    LET fields == parse_fix(msg)
        types == {i \in 1..Len(fields) : fields[i].tag = 35}
        msg_def == IF types = {} THEN <<>>
                   ELSE message_def(dict, fields[SetMin(types)].value)
        r == GroupRenderer(dict, annotations, IF msg_def = <<>> THEN <<>> ELSE msg_def[1],
                           fields)
        missing(seen_tags) ==
            LET RECURSIVE rest(_)
                rest(i) ==
                    IF i > Len(order) THEN <<>>
                    ELSE IF order[i] \in seen_tags \/ annotations[order[i]] = <<>>
                         THEN rest(i + 1)
                    ELSE write_missing_line(dict, order[i], annotations[order[i]])
                         \o rest(i + 1)
            IN  rest(1)
        RECURSIVE top(_, _, _)
        top(idx, seen_tags, lines) ==
            LET grouped(g) ==
                    top(idx + (IF g.consumed > 1 THEN g.consumed ELSE 1),
                        seen_tags \cup {fields[idx].tag}, lines \o g.lines)
            IN  IF idx > Len(fields) THEN lines \o missing(seen_tags)
                ELSE IF msg_def # <<>> /\ fields[idx].tag \in DOMAIN msg_def[1].groups
                THEN grouped(render_group(r, idx, msg_def[1].groups[fields[idx].tag],
                                          BASE_INDENT))
                ELSE top(idx + 1, seen_tags \cup {fields[idx].tag},
                         lines \o write_field_line(dict, fields[idx], annotations,
                                                   BASE_INDENT))
    IN  top(1, {}, <<>>)

(***************************************************************************)
(* The validator and validation mode fed with messages                     *)
(***************************************************************************)

\* A dictionary after tests::test_lookup of validator.rs: the header
\* 8, 9, 35, 49, 34, the trailer 10, the heartbeat "0", and the message "Z"
\* with Side (54) and the repeating group NoItems (100) of ItemValue (101)
\* and ItemNote (102).
TestDictionary ==
    [fields |-> <<Field("BeginString", 8, "STRING", {}),
                  Field("BodyLength", 9, "LENGTH", {}),
                  Field("MsgType", 35, "STRING", {}),
                  Field("SenderCompID", 49, "STRING", {}),
                  Field("MsgSeqNum", 34, "SEQNUM", {}),
                  Field("Side", 54, "CHAR", {<<49>>, <<50>>}),
                  Field("NoItems", 100, "NUMINGROUP", {}),
                  Field("ItemValue", 101, "STRING", {}),
                  Field("ItemNote", 102, "STRING", {}),
                  Field("CheckSum", 10, "STRING", {})>>,
     messages |-> <<Message("Heartbeat", <<48>>, <<>>, <<>>, <<>>),
                    Message("Test", <<90>>,
                            <<FieldRef("Side", "N"), FieldRef("NoItems", "Y")>>,
                            <<GroupDef("NoItems", "Y",
                                       <<FieldRef("ItemValue", "N"),
                                         FieldRef("ItemNote", "N")>>,
                                       <<>>, <<>>)>>,
                            <<>>)>>,
     components |-> <<>>,
     header |-> ComponentDef("", <<FieldRef("BeginString", "Y"),
                                   FieldRef("BodyLength", "Y"),
                                   FieldRef("MsgType", "Y"),
                                   FieldRef("SenderCompID", "N"),
                                   FieldRef("MsgSeqNum", "N")>>, <<>>, <<>>),
     trailer |-> ComponentDef("", <<FieldRef("CheckSum", "Y")>>, <<>>, <<>>)]

\* "tag=value" followed by SOH
TagValue(tag, value) == Decimal(tag) \o <<61>> \o value \o <<Delimiter>>

\* the fields, given as <<tag, value>> pairs, one after the other
RECURSIVE Fields(_)
Fields(pairs) ==
    IF pairs = <<>> THEN <<>>
    ELSE TagValue(pairs[1][1], pairs[1][2]) \o Fields(Tail(pairs))

\* count entries of the group, each listing the first width entry tags
GroupEntries(count, width) ==
    LET entry == SubSeq(<<<<101, <<65>>>>, <<102, <<66>>>>>>, 1, width)
        RECURSIVE repeat(_)
        repeat(n) == IF n = 0 THEN <<>> ELSE entry \o repeat(n - 1)
    IN  <<<<100, <<Zero + count>>>>>> \o repeat(count)

\* bound: the entries of the repeating group of a message
MaxEntries == 2

\* bodies in canonical order that carry every required tag and fitting values
ValidBodies ==
    {<<<<35, <<48>>>>>>}
    \cup {<<<<35, <<90>>>>>> \o side \o GroupEntries(count, width) :
             side \in {<<>>, <<<<54, <<49>>>>>>}, count \in 1..MaxEntries, width \in 1..2}

\* bodies that break one rule or several
InvalidBodies ==
    {<<>>,
     <<<<35, <<81>>>>>>,
     <<<<35, <<90>>>>>>,
     <<<<54, <<57>>>>>>,
     <<<<54, <<49>>>>, <<54, <<49>>>>>>,
     <<<<35, <<81>>>>, <<34, <<120>>>>>>,
     <<<<35, <<90>>>>, <<54, <<57>>>>>> \o GroupEntries(1, 1),
     <<<<35, <<90>>>>, <<34, <<120>>>>>> \o GroupEntries(1, 1),
     <<<<35, <<90>>>>, <<54, <<49>>>>, <<54, <<49>>>>>> \o GroupEntries(1, 1),
     <<<<35, <<90>>>>>> \o GroupEntries(1, 2) \o <<<<54, <<49>>>>>>}

\* the BodyLength field of a message: right, one too high, with a sign,
\* not a number, or absent
BodyLengthFields(body) ==
    {TagValue(9, Decimal(Len(body))),
     TagValue(9, Decimal(Len(body) + 1)),
     TagValue(9, <<43>> \o Decimal(Len(body))),
     TagValue(9, <<120>>),
     <<>>}

\* the CheckSum field behind head: right, wrong, or absent
CheckSumFields(head) ==
    {TagValue(10, Decimal3(ByteSum(head) % 256)),
     TagValue(10, Decimal3((ByteSum(head) + 1) % 256)),
     <<>>}

\* what stands between BeginString and BodyLength: nothing, or SenderCompID
Misplaced == {<<>>, TagValue(49, <<65>>)}

\* the messages handed to the validator
ValidatorMsgs ==
    UNION {UNION {{BeginField \o early \o nine \o Fields(body) \o ten :
                      ten \in CheckSumFields(BeginField \o early \o nine \o Fields(body))} :
                     nine \in BodyLengthFields(Fields(body))} :
              <<early, body>> \in Misplaced \X (ValidBodies \cup InvalidBodies)}

\* a message of ValidatorMsgs that is structurally valid: BodyLength and
\* CheckSum right, a body of ValidBodies, nothing misplaced
WellFormed(msg) ==
    \E body \in ValidBodies :
        msg = build_fix_message(Fields(body))

\* the orders in which a hash map may yield the keys of map
KeyOrders(map) ==
    {order \in [1..Cardinality(DOMAIN map) -> DOMAIN map] :
        \A i, j \in DOMAIN order : i # j => order[i] # order[j]}

TestLookup == from_dictionary(TestDictionary, "FIX44")

InitValidator ==
    /\ SummaryInit
    /\ fix_override = None
    /\ lookups = <<>>
    /\ next_obj = 1
    /\ RegistryIdle
    /\ PcapIdle
    /\ dictionary = TestDictionary
    /\ schema = TestLookup
    /\ checked \in ValidatorMsgs
    /\ report = <<>>
    /\ pretty = <<>>
    /\ StreamIdle
    /\ name_call = <<>>
    /\ expansion = NoExpansion
    /\ threads = NoThreads

\* validation mode handles the framed message: validate_fix_message, and
\* for a report that is not clean stream_invalid_message
Validate ==
    LET written(r) ==
            /\ report' = Some(r)
            /\ IF r.errors = <<>> THEN pretty' = <<>>
               ELSE \E order \in KeyOrders(r.tag_errors) :
                        pretty' = prettify_with_report(checked, schema, r.tag_errors, order)
    IN  /\ report = <<>>
        /\ written(validate_fix_message(checked, schema))
        /\ UNCHANGED <<dictionary, schema, checked, name_call, expansion, threads, summaryVars, registryVars, pcapVars,
                       streamVars>>

NextValidator == Validate

SpecValidator == InitValidator /\ [][NextValidator]_vars

(***************************************************************************)
(* Properties of the validator and of validation mode                      *)
(***************************************************************************)

\* the validator has run on the message
Validated == report # <<>>

\* the error is in the flat list of the report
Reports(err) == \E i \in 1..Len(report[1].errors) : report[1].errors[i] = err

\* the error is indexed under the tag
ReportsUnder(tag, err) ==
    /\ tag \in DOMAIN report[1].tag_errors
    /\ \E i \in 1..Len(report[1].tag_errors[tag]) : report[1].tag_errors[tag][i] = err

\* what the checks that need no message definition find in the message:
\* duplicate tags, BodyLength, enum values and types, CheckSum
DefinitionFreeFindings(msg, dict) ==
    LET found(fields, built) ==
            [i \in 1..Len(built.duplicates) |->
                Finding(Error("Duplicate tag {} encountered", <<built.duplicates[i]>>),
                        built.duplicates[i])]
            \o validate_body_length(msg, built.field_map)
            \o validate_field_enums_and_types(fields, dict)
            \o validate_checksum_field(msg, built.field_map)
        parsed(fields) == found(fields, build_field_map(fields, dict))
    IN  parsed(parse_fix(msg))

\* C11: whatever else fails, and also when tag 35 is missing or unknown,
\* the report holds every error that the duplicate, BodyLength, enum, type
\* and CheckSum checks find in the message.
C11_AllChecksAccumulate ==
    Validated =>
        LET each(found) == \A i \in 1..Len(found) : Reports(found[i].err)
        IN  each(DefinitionFreeFindings(checked, schema))

\* C12: a structurally valid message, whatever the number of entries of
\* its repeating group and of entry tags per entry, has a clean report.
C12_ValidMessageClean ==
    Validated /\ WellFormed(checked) => report[1].errors = <<>>

\* the byte offsets at which the fragments of the message start
FragmentStarts(msg) ==
    {0} \cup {i + 1 : i \in {j \in 0..(Len(msg) - 2) : At(msg, j) = Delimiter}}

\* the number of bytes from just after the SOH that ends the 9= field up
\* to and including the SOH immediately before 10=; -1 when the message
\* lacks one of the two fields or has 10= first
BodyLengthByFields(msg) ==
    LET nines == {s \in FragmentStarts(msg) : StartsWith(SliceFrom(msg, s), <<57, 61>>)}
        tens == {s \in FragmentStarts(msg) : StartsWith(SliceFrom(msg, s), <<49, 48, 61>>)}
        after == SetMin(nines) + Position(SliceFrom(msg, SetMin(nines)), Delimiter) + 1
    IN  IF nines = {} \/ tens = {} THEN -1
        ELSE IF Position(SliceFrom(msg, SetMin(nines)), Delimiter) = -1 THEN -1
        ELSE IF SetMax(tens) < after THEN -1
        ELSE SetMax(tens) - after

\* the MsgType of the message has a definition in the dictionary
KnownMsgType(msg, dict) ==
    LET known(map) == 35 \in DOMAIN map /\ message_def(dict, map[35]) # <<>>
    IN  known(build_field_map(parse_fix(msg), dict).field_map)

\* the value of tag 9 when it is a non-negative integer, else -1
DeclaredBodyLength(msg) ==
    LET declared(map) == IF 9 \in DOMAIN map THEN parse_unsigned(map[9]) ELSE -1
    IN  declared(build_field_map(parse_fix(msg), TestLookup).field_map)

\* C13: for a message with a known MsgType that declares the BodyLength D
\* and has the actual body length A, "BodyLength mismatch: got D, expected
\* A" is in the flat list and under tag 9 exactly when D differs from A.
C13_BodyLengthMismatch ==
    LET mismatch(d, a) ==
            LET err == Error("BodyLength mismatch: got {}, expected {}", <<d, a>>)
            IN  /\ (Reports(err) /\ ReportsUnder(9, err)) <=> d # a
                /\ Reports(err) <=> ReportsUnder(9, err)
    IN  (/\ Validated
         /\ KnownMsgType(checked, schema)
         /\ DeclaredBodyLength(checked) # -1
         /\ BodyLengthByFields(checked) # -1)
        => mismatch(DeclaredBodyLength(checked), BodyLengthByFields(checked))

\* the message is what the frame pattern 8=FIX...10=ddd SOH matches
Framed(msg) ==
    /\ StartsWith(msg, <<56, 61, 70, 73, 88>>)
    /\ Len(msg) >= 12
    /\ LET tail == SliceFrom(msg, Len(msg) - 7)
       IN  /\ SubSeq(tail, 1, 3) = <<49, 48, 61>>
           /\ \A i \in 4..6 : is_ascii_digit(tail[i])
           /\ tail[7] = Delimiter

\* the message has no field with tag 35
LacksMsgType(msg) == \A i \in 1..Len(parse_fix(msg)) : parse_fix(msg)[i].tag # 35

\* C15: for a framed message without tag 35, validation mode writes a
\* rendering that holds a placeholder line "35 (MsgType): Missing...".
C15_MissingMsgTypePlaceholder ==
    Validated /\ Framed(checked) /\ LacksMsgType(checked) =>
        \E i \in 1..Len(pretty) :
            /\ pretty[i].kind = "missing"
            /\ pretty[i].tag = 35
            /\ pretty[i].name = "MsgType"
            /\ pretty[i].errors[1] = Error("Missing required tag 35 (MsgType)", <<>>)

(***************************************************************************)
(* The order of the rendered field lines                                   *)
(***************************************************************************)

\* the tags of the top-level field lines of a rendering, in their order
TopTags(lines) ==
    LET top == SelectSeq(lines, LAMBDA l : l.kind = "field" /\ l.indent = BASE_INDENT)
    IN  [i \in DOMAIN top |-> top[i].tag]

\* the place of a tag in the sequence of tags, 0 when it is not in it
PlaceIn(order, tag) ==
    IF \E i \in DOMAIN order : order[i] = tag
    THEN SetMin({i \in DOMAIN order : order[i] = tag})
    ELSE 0

\* the session header tags that lead the ad-hoc order
SessionHeader == <<8, 9, 35, 49, 56, 34, 52>>

\* the trailer tags of the dictionary, tag 10 when it names none
TrailerOf(dict) == IF dict.trailer_order = <<>> THEN <<10>> ELSE dict.trailer_order

\* the rank of a tag in the ordering policy for the message: its place in
\* the canonical order of the MessageDef when the MsgType is known (behind
\* it when the order does not list the tag), otherwise the session header
\* first, the trailer tags last and every other tag between them
Rank(msg, dict, tag) ==
    LET fields == parse_fix(msg)
        types == {i \in 1..Len(fields) : fields[i].tag = 35}
        def == IF types = {} THEN <<>> ELSE message_def(dict, fields[SetMin(types)].value)
    IN  IF def # <<>>
        THEN IF PlaceIn(def[1].field_order, tag) # 0 THEN PlaceIn(def[1].field_order, tag)
             ELSE Len(def[1].field_order) + 1
        ELSE IF PlaceIn(TrailerOf(dict), tag) # 0
             THEN Len(SessionHeader) + 1 + PlaceIn(TrailerOf(dict), tag)
        ELSE IF PlaceIn(SessionHeader, tag) # 0 THEN PlaceIn(SessionHeader, tag)
        ELSE Len(SessionHeader) + 1

\* the tags stand in the order of the policy
InPolicyOrder(msg, dict, tags) ==
    \A i, j \in DOMAIN tags : i < j => Rank(msg, dict, tags[i]) <= Rank(msg, dict, tags[j])

\* C23: the field lines of prettify_with_report stand in the order of the
\* policy whatever the order of the fields in the input: the canonical
\* order of the MessageDef when the MsgType is known, otherwise the session
\* header tags 8, 9, 35, 49, 56, 34, 52 first and the trailer tags last; a
\* header or trailer tag out of place in the input is repositioned.
C23_LinesInPolicyOrder ==
    (Validated /\ pretty # <<>>) => InPolicyOrder(checked, schema, TopTags(pretty))

(***************************************************************************)
(* The schema compiler fed with dictionaries                               *)
(***************************************************************************)

\* the field table of the dictionaries
DictionaryFields ==
    <<Field("BeginString", 8, "STRING", {}),
      Field("BodyLength", 9, "LENGTH", {}),
      Field("MsgType", 35, "STRING", {}),
      Field("SenderCompID", 49, "STRING", {}),
      Field("Side", 54, "CHAR", {<<49>>, <<50>>}),
      Field("NoItems", 100, "NUMINGROUP", {}),
      Field("ItemValue", 101, "STRING", {}),
      Field("ItemNote", 102, "STRING", {}),
      Field("NoLegs", 200, "NUMINGROUP", {}),
      Field("LegNote", 201, "STRING", {}),
      Field("CheckSum", 10, "STRING", {})>>

\* the components: Parties holds fields and a group, Loop and Back
\* reference each other
DictionaryComponents ==
    <<ComponentDef("Parties",
                   <<FieldRef("SenderCompID", "Y"), FieldRef("Side", "N")>>,
                   <<GroupDef("NoLegs", "N", <<FieldRef("LegNote", "Y")>>, <<>>, <<>>)>>,
                   <<>>),
      ComponentDef("Loop", <<FieldRef("Side", "Y")>>, <<>>, <<[name |-> "Back"]>>),
      ComponentDef("Back", <<FieldRef("SenderCompID", "N")>>, <<>>,
                   <<[name |-> "Loop"]>>)>>

\* what the header lists behind BeginString, BodyLength and MsgType
HeaderTails ==
    {<<>>, <<FieldRef("SenderCompID", "N")>>, <<FieldRef("SenderCompID", "Y")>>}

\* the field references of the message
MessageFields ==
    {<<>>,
     <<FieldRef("SenderCompID", "Y")>>,
     <<FieldRef("Side", "N"), FieldRef("SenderCompID", "Y")>>,
     <<FieldRef("Side", "Y"), FieldRef("NoItems", "Y")>>,
     <<FieldRef("Unlisted", "Y"), FieldRef("Side", None)>>}

\* the component references of the message: none, a component, a cycle of
\* components, a component that is not defined
MessageComponents ==
    {<<>>, <<[name |-> "Parties"]>>, <<[name |-> "Loop"]>>, <<[name |-> "Undefined"]>>}

\* the groups of the message: none, a flat group, a group with a nested
\* group and a component
MessageGroups ==
    {<<>>,
     <<GroupDef("NoItems", "Y",
                <<FieldRef("ItemValue", "Y"), FieldRef("ItemNote", "N")>>, <<>>, <<>>)>>,
     <<GroupDef("NoItems", "Y",
                <<FieldRef("ItemValue", "Y")>>,
                <<GroupDef("NoLegs", "N", <<FieldRef("LegNote", "Y")>>, <<>>, <<>>)>>,
                <<[name |-> "Parties"]>>)>>}

\* the dictionaries handed to the compiler
FixDictionaries ==
    {[fields |-> DictionaryFields,
      messages |-> <<Message("Heartbeat", <<48>>, <<>>, <<>>, <<>>),
                     Message("Test", <<90>>, fields, groups, components)>>,
      components |-> DictionaryComponents,
      header |-> ComponentDef("", <<FieldRef("BeginString", "Y"),
                                    FieldRef("BodyLength", "Y"),
                                    FieldRef("MsgType", "Y")>> \o tail, <<>>, <<>>),
      trailer |-> ComponentDef("", <<FieldRef("CheckSum", "Y")>>, <<>>, <<>>)] :
        tail \in HeaderTails, fields \in MessageFields,
        components \in MessageComponents, groups \in MessageGroups}

InitSchema ==
    /\ SummaryInit
    /\ fix_override = None
    /\ lookups = <<>>
    /\ next_obj = 1
    /\ RegistryIdle
    /\ PcapIdle
    /\ dictionary \in FixDictionaries
    /\ schema = NoLookup
    /\ checked = <<>>
    /\ report = <<>>
    /\ pretty = <<>>
    /\ StreamIdle
    /\ name_call = <<>>
    /\ expansion = NoExpansion
    /\ threads = NoThreads

\* the dictionary is compiled
Compile ==
    /\ schema = NoLookup
    /\ schema' = from_dictionary(dictionary, "FIX44")
    /\ UNCHANGED <<dictionary, checked, report, pretty, name_call, expansion, threads, summaryVars, registryVars,
                   pcapVars, streamVars>>

NextSchema == Compile

SpecSchema == InitSchema /\ [][NextSchema]_vars

(***************************************************************************)
(* Properties of the schema compiler                                       *)
(***************************************************************************)

\* a lookup has been compiled
Compiled == schema # NoLookup

\* how often the tag occurs in the order
Occurrences(order, tag) == Cardinality({i \in 1..Len(order) : order[i] = tag})

\* C14: in every message definition of a compiled schema, every required
\* tag occurs exactly once in the canonical field order.
C14_RequiredOnceInOrder ==
    Compiled =>
        \A m \in DOMAIN schema.messages :
            \A i \in 1..Len(schema.messages[m].required) :
                Occurrences(schema.messages[m].field_order,
                            schema.messages[m].required[i]) = 1

(***************************************************************************)
(* Repeating groups in a compiled message definition                       *)
(***************************************************************************)

\* the elements of a sequence
Elements(seq) == {seq[i] : i \in DOMAIN seq}

\* the definitions of the dictionary's components with one of the names
ComponentsNamed(dict, names) == {c \in Elements(dict.components) : c.name \in names}

\* the names of the components referenced by the definitions
ReferencedBy(defs) == UNION {{r.name : r \in Elements(d.components)} : d \in defs}

\* the groups and components reached in the walk of a message: what it
\* declares, what the components it reaches declare, what the groups it
\* reaches hold
RECURSIVE ReachedFrom(_, _)
ReachedFrom(dict, defs) ==
    LET more == defs
                \cup ComponentsNamed(dict, ReferencedBy(defs))
                \cup UNION {Elements(d.groups) : d \in defs}
    IN  IF more = defs THEN defs ELSE ReachedFrom(dict, more)

\* the repeating groups reached in the walk of the message whose count
\* field the dictionary defines
ReachedGroups(dict, msg) ==
    {d \in ReachedFrom(dict, {msg}) :
        /\ "required" \in DOMAIN d
        /\ \E f \in Elements(dict.fields) : f.name = d.name}

\* the number of the field of that name
NumberOf(dict, name) ==
    (CHOOSE f \in Elements(dict.fields) : f.name = name).number

\* the numbers of the field references the dictionary defines, in order
NumbersOf(dict, refs) ==
    LET known == SelectSeq(refs, LAMBDA r : \E f \in Elements(dict.fields) : f.name = r.name)
    IN  [i \in DOMAIN known |-> NumberOf(dict, known[i].name)]

\* the tags stand in the order one right after the other
Contiguous(order, tags) ==
    \E p \in 0..(Len(order) - Len(tags)) : SubSeq(order, p + 1, p + Len(tags)) = tags

\* a GroupSpec is registered under the count tag, among the specs or
\* nested in one of them
RECURSIVE RegisteredUnder(_, _)
RegisteredUnder(specs, count_tag) ==
    \/ count_tag \in DOMAIN specs
    \/ \E c \in DOMAIN specs : RegisteredUnder(specs[c].nested, count_tag)

\* C26: in a compiled MessageDef every repeating group reached in the walk
\* (declared on the message, inside a component, or nested in another
\* group) has its count tag in the canonical field order immediately
\* followed by its entry tags, and a GroupSpec is registered under the
\* count tag, whether or not the dictionary lists the count field as a
\* plain field reference too.
C26_GroupCountThenEntries ==
    Compiled =>
        \A msg \in Elements(dictionary.messages) :
            \A g \in ReachedGroups(dictionary, msg) :
                /\ Contiguous(schema.messages[msg.msg_type].field_order,
                              <<NumberOf(dictionary, g.name)>>
                              \o NumbersOf(dictionary, g.fields))
                /\ RegisteredUnder(schema.messages[msg.msg_type].groups,
                                   NumberOf(dictionary, g.name))

(***************************************************************************)
(* Stream driver (decoder/prettifier.rs, stream_until_complete) in         *)
(* validation mode, without summary, live status and obfuscation           *)
(***************************************************************************)

\* bound: the lines the input holds, appended ones included
MaxLines == 2

\* bound: the reads that fail
MaxReadErrors == 1

\* FIX_REGEX "8=FIX.*?10=\d{3}\x01" at offset from: the end of the
\* shortest match that starts there, -1 when there is none
match_end(line, from) ==
    LET ends == {e \in (from + 12)..Len(line) :
                    /\ Slice(line, e - 7, e - 4) = <<49, 48, 61>>
                    /\ \A i \in (e - 4)..(e - 2) : is_ascii_digit(At(line, i))
                    /\ At(line, e - 1) = Delimiter}
    IN  IF ~StartsWith(SliceFrom(line, from), <<56, 61, 70, 73, 88>>) THEN -1
        ELSE IF ends = {} THEN -1
        ELSE SetMin(ends)

\* find_fix_message_indices: the (start, end) pairs of the matches of
\* FIX_REGEX from the left, none overlapping another
RECURSIVE find_fix_message_indices_from(_, _)
find_fix_message_indices_from(line, from) ==
    IF from >= Len(line) THEN <<>>
    ELSE IF match_end(line, from) = -1
         THEN find_fix_message_indices_from(line, from + 1)
    ELSE <<<<from, match_end(line, from)>>>>
         \o find_fix_message_indices_from(line, match_end(line, from))

find_fix_message_indices(line) == find_fix_message_indices_from(line, 0)

\* trim_line_endings: drops a final "\n" and a "\r" before it
trim_line_endings(line) ==
    IF line # <<>> /\ line[Len(line)] = Newline
    THEN IF Len(line) > 1 /\ line[Len(line) - 1] = 13
         THEN SubSeq(line, 1, Len(line) - 2)
         ELSE SubSeq(line, 1, Len(line) - 1)
    ELSE line

\* apply_display_delimiter: the text with every SOH replaced
apply_display_delimiter(text, delimiter) ==
    IF delimiter = 1 \/ (\A i \in DOMAIN text : text[i] # 1) THEN text
    ELSE [i \in DOMAIN text |-> IF text[i] = 1 THEN delimiter ELSE text[i]]

\* ctx.display_delimiter: SOH or '|'
DisplayDelimiters == {1, 124}

\* a variant that returns in non-follow mode only
returns_unless_follow(flag, follow) == ~follow

\* the condition on which stream_until_complete returns after a run of
\* stream_reader
returns_after_reader(flag, follow) == flag \/ ~follow

\* a heartbeat without tag 35 and with the CheckSum of its bytes
NoMsgType ==
    BeginField \o TagValue(9, <<48>>)
    \o TagValue(10, Decimal3(ByteSum(BeginField \o TagValue(9, <<48>>)) % 256))

\* the lines of the input: no message, a clean message, text and a
\* message that is not clean, two messages that are not clean around a
\* clean one
InputLines ==
    {<<110, 111, Newline>>,
     Heartbeat \o <<Newline>>,
     <<116, 32>> \o BadChecksum \o <<13, Newline>>,
     BadChecksum \o Heartbeat \o <<32>> \o NoMsgType \o <<Newline>>}

\* the function that maps each x of S to F(x), as a table computed once
Tabulate(S, F(_)) ==
    LET RECURSIVE table(_)
        table(T) ==
            IF T = {} THEN <<>>
            ELSE LET x == CHOOSE y \in T : TRUE
                 IN  (x :> F(x)) @@ table(T \ {x})
    IN  table(S)

\* the matches of each line of the input
Located == Tabulate({trim_line_endings(l) : l \in InputLines}, find_fix_message_indices)

\* the messages of the lines of the input
InputMessages == {Heartbeat, BadChecksum, NoMsgType}

\* load_dictionary_with_override resolves every message of the input to the
\* FIX44 lookup; the report of the validator for each message
Validation == Tabulate(InputMessages, LAMBDA msg : validate_fix_message(msg, TestLookup))

\* the rendering of each message with its report, for each order in which
\* the annotated tags can be visited
Rendering ==
    Tabulate(InputMessages,
             LAMBDA msg :
                 Tabulate(KeyOrders(Validation[msg].tag_errors),
                          LAMBDA order :
                              prettify_with_report(msg, TestLookup,
                                                   Validation[msg].tag_errors, order)))

\* what the driver wrote: the "Line N: raw" header of a line or the
\* rendering of a message
Block(kind, line_number, text) == [kind |-> kind, line_number |-> line_number, text |-> text]

InitDriver ==
    /\ SummaryInit
    /\ fix_override = None
    /\ lookups = <<>>
    /\ next_obj = 1
    /\ RegistryIdle
    /\ PcapIdle
    /\ dictionary = TestDictionary
    /\ schema = TestLookup
    /\ checked = <<>>
    /\ report = <<>>
    /\ pretty = <<>>
    /\ interrupted = FALSE
    /\ \E follow \in BOOLEAN : \E display_delimiter \in DisplayDelimiters :
           driver = [pc |-> "loop", follow |-> follow,
                     display_delimiter |-> display_delimiter, line_number |-> 0,
                     read_any |-> FALSE, line |-> <<>>, matches |-> <<>>, next |-> 1,
                     header_emitted |-> FALSE, late |-> 0]
    /\ \E n \in 0..MaxLines : \E lines \in [1..n -> InputLines] :
           reader = [lines |-> lines, pos |-> 1, errors |-> 0]
    /\ ctx_out = <<>>
    /\ name_call = <<>>
    /\ expansion = NoExpansion
    /\ threads = NoThreads

\* stream_until_complete enters stream_reader
StartReader ==
    /\ driver.pc = "loop"
    /\ driver' = [driver EXCEPT !.pc = "check", !.line_number = 0, !.read_any = FALSE]
    /\ UNCHANGED <<interrupted, reader, ctx_out>>

\* stream_reader loads the flag at the head of its loop
CheckFlag ==
    /\ driver.pc = "check"
    /\ driver' = [driver EXCEPT !.pc = IF interrupted THEN "after" ELSE "read"]
    /\ UNCHANGED <<interrupted, reader, ctx_out>>

\* read_line returns a line: it is counted, trimmed and its messages located
ReadLine ==
    /\ driver.pc = "read"
    /\ reader.pos <= Len(reader.lines)
    /\ \E line \in {trim_line_endings(reader.lines[reader.pos])} :
           \E matches \in {Located[line]} :
               driver' = [driver EXCEPT !.pc = "handle", !.read_any = TRUE,
                                        !.line_number = @ + 1, !.line = line,
                                        !.matches = matches,
                                        !.next = 1, !.header_emitted = FALSE,
                                        !.late = IF interrupted THEN @ + 1 ELSE @]
    /\ reader' = [reader EXCEPT !.pos = @ + 1]
    /\ UNCHANGED <<interrupted, ctx_out>>

\* read_line returns 0 at the end of the input
ReadEof ==
    /\ driver.pc = "read"
    /\ reader.pos > Len(reader.lines)
    /\ driver' = [driver EXCEPT !.pc = "after"]
    /\ UNCHANGED <<interrupted, reader, ctx_out>>

\* read_line fails: the error is returned in non-follow mode; in follow
\* mode the read is retried after a sleep unless the flag is set
ReadError ==
    /\ driver.pc = "read"
    /\ reader.errors < MaxReadErrors
    /\ reader' = [reader EXCEPT !.errors = @ + 1]
    /\ driver' = [driver EXCEPT !.pc = IF ~driver.follow THEN "failed"
                                      ELSE IF interrupted THEN "after"
                                      ELSE "read"]
    /\ UNCHANGED <<interrupted, ctx_out>>

\* process_with_validation handles the next message of the line: nothing
\* for a clean report, else the header of the line, once, and the rendering
HandleMessage ==
    /\ driver.pc = "handle"
    /\ driver.next <= Len(driver.matches)
    /\ \E msg \in {Slice(driver.line, driver.matches[driver.next][1],
                          driver.matches[driver.next][2])} :
           IF Validation[msg].errors = <<>>
           THEN /\ ctx_out' = ctx_out
                /\ driver' = [driver EXCEPT !.next = @ + 1]
           ELSE /\ \E order \in KeyOrders(Validation[msg].tag_errors) :
                   \E display_line \in {apply_display_delimiter(driver.line,
                                                                driver.display_delimiter)} :
                       ctx_out' = ctx_out
                                  \o (IF driver.header_emitted THEN <<>>
                                      ELSE <<Block("header", driver.line_number,
                                                   display_line)>>)
                                  \o <<Block("message", driver.line_number,
                                             Rendering[msg][order])>>
                /\ driver' = [driver EXCEPT !.next = @ + 1, !.header_emitted = TRUE]
    /\ UNCHANGED <<interrupted, reader>>

\* process_with_validation returns: back to the head of the loop
HandleDone ==
    /\ driver.pc = "handle"
    /\ driver.next > Len(driver.matches)
    /\ driver' = [driver EXCEPT !.pc = "check"]
    /\ UNCHANGED <<interrupted, reader, ctx_out>>

\* stream_reader has returned: stream_until_complete returns or, in follow
\* mode, sleeps when nothing was read and runs stream_reader again
AfterReader ==
    /\ driver.pc = "after"
    /\ driver' = [driver EXCEPT !.pc = IF returns_after_reader(interrupted, driver.follow)
                                      THEN "returned" ELSE "loop"]
    /\ UNCHANGED <<interrupted, reader, ctx_out>>

\* the steps of the driver
DriverStep ==
    /\ \/ StartReader
       \/ CheckFlag
       \/ ReadLine
       \/ ReadEof
       \/ ReadError
       \/ HandleMessage
       \/ HandleDone
       \/ AfterReader
    /\ UNCHANGED <<dictionary, schema, checked, report, pretty, name_call, expansion, threads, summaryVars,
                   registryVars, pcapVars>>

\* the signal handler sets the flag
Interrupt ==
    /\ ~interrupted
    /\ interrupted' = TRUE
    /\ UNCHANGED <<driver, reader, ctx_out, dictionary, schema, checked, report, pretty,
                   name_call, expansion, threads, summaryVars, registryVars, pcapVars>>

\* the input grows while it is followed
AppendLine ==
    /\ driver.follow
    /\ driver.pc \notin {"returned", "failed"}
    /\ Len(reader.lines) < MaxLines
    /\ \E line \in InputLines : reader' = [reader EXCEPT !.lines = Append(@, line)]
    /\ UNCHANGED <<interrupted, driver, ctx_out, dictionary, schema, checked, report,
                   pretty, name_call, expansion, threads, summaryVars, registryVars, pcapVars>>

NextDriver == DriverStep \/ Interrupt \/ AppendLine

\* the driver, once started, keeps running: the thread is scheduled
SpecDriver == InitDriver /\ [][NextDriver]_vars /\ WF_vars(DriverStep)

(***************************************************************************)
(* Cancellation of the stream driver                                       *)
(***************************************************************************)

\* stream_until_complete has returned, with Ok or with the error of a read
Returned == driver.pc \in {"returned", "failed"}

\* the messages of a line the validator does not report clean
Rejected(line) ==
    LET at(m) == Slice(line, m[1], m[2])
    IN  SelectSeq([i \in DOMAIN find_fix_message_indices(line) |->
                       at(find_fix_message_indices(line)[i])],
                  LAMBDA msg : validate_fix_message(msg, schema).errors # <<>>)

\* what the complete handling of the lines writes: per line with rejected
\* messages its header and then one rendering per rejected message
RECURSIVE Streamed(_)
Streamed(lines) ==
    IF lines = <<>> THEN <<>>
    ELSE LET line == trim_line_endings(Head(lines))
             blocks(ms) ==
                 IF ms = <<>> THEN <<>>
                 ELSE <<[kind |-> "header", line |-> line, msg |-> <<>>]>>
                      \o [i \in DOMAIN ms |-> [kind |-> "message", line |-> line, msg |-> ms[i]]]
         IN  blocks(Rejected(line)) \o Streamed(Tail(lines))

\* block b is the complete writing of e
WrittenInFull(b, e) ==
    /\ b.kind = e.kind
    /\ IF e.kind = "header"
       THEN b.text = apply_display_delimiter(e.line, driver.display_delimiter)
       ELSE \E order \in KeyOrders(validate_fix_message(e.msg, schema).tag_errors) :
                b.text = prettify_with_report(e.msg, schema,
                                              validate_fix_message(e.msg, schema).tag_errors,
                                              order)

\* every line that was read is handled to its end: all its messages written
LinesComplete ==
    LET done(expected) ==
            /\ Len(ctx_out) = Len(expected)
            /\ \A i \in DOMAIN expected : WrittenInFull(ctx_out[i], expected[i])
    IN  done(Streamed(SubSeq(reader.lines, 1, reader.pos - 1)))

\* the driver returns with every line it read complete; without the flag
\* follow mode does not return and non-follow mode returns at the end of
\* the input or with the error of a read
ReturnsComplete ==
    /\ Returned => LinesComplete
    /\ driver.follow /\ ~interrupted => ~Returned
    /\ driver.pc = "returned" /\ ~interrupted => reader.pos = Len(reader.lines) + 1

RECURSIVE Numbered(_, _)
Numbered(lines, n) ==
    IF lines = <<>> THEN <<>>
    ELSE LET line == trim_line_endings(Head(lines))
             blocks(ms) ==
                 IF ms = <<>> THEN <<>>
                 ELSE <<[kind |-> "header", line_number |-> n, line |-> line, msg |-> <<>>]>>
                      \o [i \in DOMAIN ms |->
                             [kind |-> "message", line_number |-> n, line |-> line,
                              msg |-> ms[i]]]
         IN  blocks(Rejected(line)) \o Numbered(Tail(lines), n + 1)

\* the output is the writing of the expected blocks, headers under the
\* expected line numbers
WrittenAs(expected) ==
    /\ Len(ctx_out) = Len(expected)
    /\ \A i \in DOMAIN expected :
           /\ WrittenInFull(ctx_out[i], expected[i])
           /\ expected[i].kind = "header" =>
                  ctx_out[i].line_number = expected[i].line_number

\* the driver is between two lines
BetweenLines == driver.pc # "handle"

\* C22: in validation-only mode the driver writes nothing for a line all of
\* whose framed messages have a clean report, and for the N-th line read (N
\* counted from 1) that holds a message that is not clean it writes "Line
\* N:" with the line, its SOH bytes replaced by the display delimiter, and
\* then the renderings of the messages of the line that are not clean, in
\* their order on the line; clean messages are not rendered.
C22_NonCleanUnderLineNumber ==
    BetweenLines => WrittenAs(Numbered(SubSeq(reader.lines, 1, reader.pos - 1), 1))

(***************************************************************************)
(* Field names of layered lookups (tag_lookup.rs): the registry's lookups  *)
(* with the dictionaries they were compiled from                           *)
(***************************************************************************)

\* a dictionary with the header, trailer and Heartbeat message of the
\* dictionaries of the tests (tag_lookup.rs:760-816) and the fields given
NamesDictionary(fields) ==
    [fields |-> fields,
     messages |-> <<Message("Heartbeat", <<48>>, <<FieldRef("MsgType", "Y")>>, <<>>, <<>>)>>,
     components |-> <<>>,
     header |-> ComponentDef("", <<FieldRef("BeginString", "Y")>>, <<>>, <<>>),
     trailer |-> ComponentDef("", <<FieldRef("CheckSum", "Y")>>, <<>>, <<>>)]

small_override_dictionary ==
    NamesDictionary(<<Field("BeginString", 8, "STRING", {}),
                      Field("CheckSum", 10, "STRING", {}),
                      Field("MsgType", 35, "STRING", {<<48>>})>>)

small_detected_dictionary ==
    NamesDictionary(<<Field("BeginString", 8, "STRING", {}),
                      Field("CheckSum", 10, "STRING", {}),
                      Field("MsgType", 35, "STRING", {<<48>>}),
                      Field("ApplVerID", 1128, "STRING", {<<57>>})>>)

\* a custom dictionary that names field 1128 by its number
numbered_dictionary ==
    NamesDictionary(<<Field("BeginString", 8, "STRING", {}),
                      Field("CheckSum", 10, "STRING", {}),
                      Field("MsgType", 35, "STRING", {<<48>>}),
                      Field("1128", 1128, "STRING", {})>>)

\* the custom dictionaries that are registered
NamedDictionaries == {"small_override", "small_detected", "numbered"}

\* the dictionary behind the name a lookup was compiled from: a custom one,
\* or an embedded one (fix::choose_embedded_xml), of which FIXT11 defines
\* ApplVerID(1128) and the others of the model do not
DictionaryOf(xml) ==
    CASE xml = "small_override" -> small_override_dictionary
      [] xml = "small_detected" -> small_detected_dictionary
      [] xml = "numbered" -> numbered_dictionary
      [] xml = "T11" -> small_detected_dictionary
      [] OTHER -> small_override_dictionary

\* the lookup with the tables from_dictionary compiles for each layer
RECURSIVE Layered(_)
Layered(l) ==
    [tag_to_name |-> from_dictionary(DictionaryOf(l.xml), l.schema_key).tag_to_name,
     fallback |-> IF l.fallback.id = 0 THEN NoLookup ELSE Layered(l.fallback)]

\* the schema keys that the dictionaries are registered under
NameKeys == {"FIX44", "FIX50SP2"}

\* the messages that lookups are loaded for: FIX.4.4, and FIXT.1.1 with
\* ApplVerID=9
NameMsgs ==
    {<<<<8, "FIX.4.4">>>>,
     <<<<8, "FIXT.1.1">>, <<35, "0">>, <<1128, "9">>>>}

\* the --fix overrides, none included
NameOverrides == {None, "FIX44", "FIX50SP2"}

\* the tags that are asked for; no dictionary of the model defines 58
NameTags == {35, 58, 1128}

\* register_fix_dictionary(&key, &dict) with a dictionary of the model
RegisterNamed ==
    \E key \in NameKeys, xml \in NamedDictionaries :
        LET times == IF key \in DOMAIN reg_call.registered
                     THEN reg_call.registered[key].times + 1 ELSE 1
            done(r) ==
                /\ lookups' = r.reg.lookups
                /\ next_obj' = r.reg.next_obj
                /\ reg_call' = [op |-> "register", key |-> key, override |-> None,
                                res |-> r.res,
                                registered |-> MapInsert(reg_call.registered, key,
                                    [id |-> r.res.id, xml |-> xml, times |-> times])]
        IN  /\ next_obj <= MaxObjects
            /\ done(register_dictionary(Registry(lookups, next_obj), key, xml))
            /\ UNCHANGED <<name_call, expansion, threads, dictionary, schema, checked, report, pretty,
                           streamVars, summaryVars, pcapVars>>

\* load_dictionary_with_override(msg, ctx.fix_override)
Resolve ==
    \E msg \in NameMsgs, override_key \in NameOverrides :
        LET done(r) ==
                /\ lookups' = r.reg.lookups
                /\ next_obj' = r.reg.next_obj
                /\ reg_call' = [op |-> "load_with_override",
                                key |-> detect_schema_key(msg),
                                override |-> override_key, res |-> r.res,
                                registered |-> reg_call.registered]
        IN  /\ next_obj <= MaxObjects
            /\ done(load_dictionary_with_override(Registry(lookups, next_obj), msg,
                                                  override_key))
            /\ UNCHANGED <<name_call, expansion, threads, dictionary, schema, checked, report, pretty,
                           streamVars, summaryVars, pcapVars>>

\* dict.field_name(tag) on the lookup the last load returned
FieldName ==
    /\ reg_call.op = "load_with_override"
    /\ \E tag \in NameTags :
           name_call' = <<[lookup |-> reg_call.res, tag |-> tag,
                           name |-> field_name(Layered(reg_call.res), tag)]>>
    /\ UNCHANGED <<registryVars, dictionary, schema, checked, report, pretty,
                   expansion, threads, streamVars, summaryVars, pcapVars>>

NextNames == RegisterNamed \/ Resolve \/ FieldName

SpecNames == InitRegistry /\ [][NextNames]_vars

(***************************************************************************)
(* Properties of field_name                                                *)
(***************************************************************************)

\* the tables of the layers of a lookup, primary first, in chain order
RECURSIVE LayerNames(_)
LayerNames(l) ==
    <<from_dictionary(DictionaryOf(l.xml), l.schema_key).tag_to_name>>
    \o (IF l.fallback.id = 0 THEN <<>> ELSE LayerNames(l.fallback))

\* the layers that define the tag
Defining(layers, tag) == {i \in 1..Len(layers) : tag \in DOMAIN layers[i]}

\* the first layer that defines the tag gives the name
NameByFirstLayer(layers, tag, name) ==
    Defining(layers, tag) # {} => name = layers[SetMin(Defining(layers, tag))][tag]

\* the lookup is FIX44 as override over the detected FIX50SP2
OverrideOverDetected(l) ==
    /\ l.fallback.id # 0
    /\ l.fallback_role = "DetectedOverride"
    /\ l.schema_key = "FIX44"
    /\ l.fallback.schema_key = "FIX50SP2"

RECURSIVE FallbackKeys(_)
FallbackKeys(l) ==
    IF l.fallback.id = 0 THEN <<>>
    ELSE <<l.fallback.schema_key>> \o FallbackKeys(l.fallback)

\* the last call loaded a lookup
Loaded == reg_call.op = "load_with_override" /\ reg_call.res # NoLookup

\* C25: every lookup that load_dictionary or load_dictionary_with_override
\* returns with a primary schema key FIX50, FIX50SP1 or FIX50SP2 has FIXT11
\* in its fallback chain, also when the key is an override over a different
\* detected schema.
C25_Fix50FamilyFallsBackToSession ==
    (Loaded /\ needs_session_merge(reg_call.res.schema_key)) =>
        \E i \in DOMAIN FallbackKeys(reg_call.res) :
            FallbackKeys(reg_call.res)[i] = SESSION_KEY

\* the absorbed fields of C27 and the tags copy_core_fields reads them from
AbsorbedTags ==
    [symbol |-> 55, side |-> 54, qty |-> 38, cum_qty |-> 14, leaves_qty |-> 151,
     avg_px |-> 6, price |-> 44, currency |-> 15, last_qty |-> 32]

\* the messages of a record that carry the tag, by position
CarriedAt(messages, tag) ==
    {i \in DOMAIN messages : tag \in DOMAIN FieldMap(messages[i])}

\* the value of the tag in the most recent message of the record that
\* carries it, None when no message of the record carries it
LastCarried(messages, tag) ==
    IF CarriedAt(messages, tag) = {} THEN None
    ELSE FieldMap(messages[SetMax(CarriedAt(messages, tag))])[tag]

\* C27: in every record, live or completed, each absorbed field (symbol,
\* side, qty, cum_qty, leaves_qty, avg_px, price, currency, last_qty) equals
\* the value carried by the most recent message of the record that contained
\* its tag: a later value overwrites an earlier one, a message without the
\* tag leaves the field as it was, and a field no message carried is absent.
C27_LastCarriedValueWins ==
    \A r \in AllRecords : \A f \in DOMAIN AbsorbedTags :
        r[f] = LastCarried(r.messages, AbsorbedTags[f])

\* a record whose field was set by one message, overwritten with another
\* value by a later one, and left alone by the last message, which does not
\* carry the tag
C27_OverwrittenThenKept ==
    \E r \in AllRecords : \E f \in DOMAIN AbsorbedTags :
        \E i, j \in CarriedAt(r.messages, AbsorbedTags[f]) :
            /\ i < j /\ j < Len(r.messages)
            /\ FieldMap(r.messages[i])[AbsorbedTags[f]] # FieldMap(r.messages[j])[AbsorbedTags[f]]
            /\ CarriedAt(r.messages, AbsorbedTags[f]) \cap (j + 1)..Len(r.messages) = {}
            /\ r[f] = FieldMap(r.messages[j])[AbsorbedTags[f]]

\* the keys of the records the aggregator created: those it holds and
\* those render_completed wrote and dropped
CreatedKeys == {r.key : r \in AllRecords \cup Range(rendered)}

\* every entry of the alias table is kept as it is by the step
AliasesKept ==
    \A id \in DOMAIN aliases : id \in DOMAIN aliases' /\ aliases'[id] = aliases[id]

\* C29: the alias table only grows: an identifier that points to a key
\* points to that key after every later record_message and
\* render_completed, every identifier carried by a recorded message is in
\* the table, and every alias target is the key of a record that was created.
C29_AliasTableOnlyGrows ==
    /\ [][AliasesKept]_vars
    /\ [](/\ \A i \in 1..Len(log) : IdsOf(log[i]) \subseteq DOMAIN aliases
          /\ \A id \in DOMAIN aliases : aliases[id] \in CreatedKeys)

\* a message carried an id that was already in the table together with the
\* id another record is keyed by: the id still points to its first key,
\* also after the records were rendered and dropped
C29_AliasKeptAcrossRecords ==
    /\ Len(log) = 3
    /\ rendered # <<>>
    /\ \E id \in IdsOf(log[3]) :
           /\ id \in IdsOf(log[1])
           /\ aliases[id] \notin IdsOf(log[3])
           /\ \E other \in IdsOf(log[3]) : aliases[other] # aliases[id]

(***************************************************************************)
(* The recursive expansions of the compiler, one call or return at a time  *)
(* (tag_lookup.rs append_component_fields / append_group_fields,           *)
(* build_group_spec / append_component_fields_for_spec, and schema.rs      *)
(* ComponentBuilder)                                                       *)
(***************************************************************************)

\* bound: depth of the call stack the expansion may use
MaxDepth == 6

\* the components of the dictionary that is expanded: Parties holds a
\* group, Selfish references itself, Loop and Back reference each other,
\* Ring references itself through a group
ExpansionComponentDefs ==
    DictionaryComponents
    \o <<ComponentDef("Selfish", <<FieldRef("Side", "Y")>>, <<>>, <<[name |-> "Selfish"]>>),
         ComponentDef("Ring", <<FieldRef("ItemNote", "N")>>,
                      <<GroupDef("NoLegs", "N", <<FieldRef("LegNote", "Y")>>, <<>>,
                                 <<[name |-> "Ring"]>>)>>,
                      <<>>)>>

\* HashMap<String, ComponentDef> of the dictionary
ExpansionComponents ==
    [c \in {ExpansionComponentDefs[i].name : i \in 1..Len(ExpansionComponentDefs)} |->
        ExpansionComponentDefs[
            SetMax({i \in 1..Len(ExpansionComponentDefs) :
                       ExpansionComponentDefs[i].name = c})]]

\* name_to_tag and the field map of the dictionary
ExpansionNameToTag ==
    [s \in {DictionaryFields[i].name : i \in 1..Len(DictionaryFields)} |->
        DictionaryFields[SetMax({i \in 1..Len(DictionaryFields) :
                                    DictionaryFields[i].name = s})].number]

ExpansionFieldMap ==
    [s \in {DictionaryFields[i].name : i \in 1..Len(DictionaryFields)} |->
        DictionaryFields[SetMax({i \in 1..Len(DictionaryFields) :
                                    DictionaryFields[i].name = s})]]

\* the component references of the group the expansion starts from: a
\* component twice, a self reference, a cycle and a component that is not
\* defined, a cycle through a group
RootComponents ==
    {<<[name |-> "Parties"], [name |-> "Parties"]>>,
     <<[name |-> "Selfish"]>>,
     <<[name |-> "Loop"], [name |-> "Undefined"]>>,
     <<[name |-> "Undefined"], [name |-> "Back"]>>,
     <<[name |-> "Ring"]>>}

\* its nested groups: none, a group whose name is not a field, a group that
\* references a component that references itself through the group
RootGroups ==
    {<<>>,
     <<GroupDef("NoSuch", "N", <<FieldRef("ItemNote", "N")>>, <<>>, <<[name |-> "Loop"]>>)>>,
     <<GroupDef("NoLegs", "N", <<FieldRef("LegNote", "Y")>>, <<>>, <<[name |-> "Ring"]>>)>>}

\* the groups the expansion starts from
ExpansionRoots ==
    {GroupDef("NoItems", "Y", <<FieldRef("ItemValue", "Y")>>, groups, components) :
        groups \in RootGroups, components \in RootComponents}

\* "fields": append_group_fields; "spec": build_group_spec; "node":
\* ComponentBuilder::build_group_from_def
ExpansionModes == {"fields", "spec", "node"}

\* schema.rs FieldNode, ComponentNode, GroupNode
FieldNode(required, field) == [required |-> required, field |-> field]

ComponentNode(name, fields, groups, components) ==
    [name |-> name, fields |-> fields, groups |-> groups, components |-> components]

GroupNode(name, required, fields, components, groups) ==
    [name |-> name, required |-> required, fields |-> fields, components |-> components,
     groups |-> groups]

\* one node per field reference whose name is in the field map
build_field_nodes(refs, fields) ==
    LET RECURSIVE push(_)
        push(i) ==
            IF i > Len(refs) THEN <<>>
            ELSE IF refs[i].name \notin DOMAIN fields THEN push(i + 1)
            ELSE <<FieldNode(refs[i].required = "Y", fields[refs[i].name])>> \o push(i + 1)
    IN  push(1)

\* a call of one of the recursive functions that has not returned: what it
\* works on, the next of its component and group references, and what it
\* has built
Frame_(kind, def, next, val) == [kind |-> kind, def |-> def, next |-> next, val |-> val]

\* the references a function walks: for sub in components, for group in groups
Children(def) ==
    [i \in 1..(Len(def.components) + Len(def.groups)) |->
        IF i <= Len(def.components)
        THEN [kind |-> "component", name |-> def.components[i].name]
        ELSE [kind |-> "group", def |-> def.groups[i - Len(def.components)]]]

\* what a function holds before it walks its references
enter_component(mode, comp, incoming) ==
    CASE mode = "fields" ->
            append_field_refs(comp.fields, ExpansionNameToTag, incoming)
      [] mode = "spec" ->
            Entry(append_field_refs(comp.fields, ExpansionNameToTag,
                                    Expansion(incoming.order, <<>>)).order,
                  incoming.nested)
      [] OTHER ->
            ComponentNode(comp.name, build_field_nodes(comp.fields, ExpansionFieldMap),
                          <<>>, <<>>)

enter_group(mode, group, incoming) ==
    CASE mode = "fields" ->
            append_field_refs(group.fields, ExpansionNameToTag, incoming)
      [] mode = "spec" ->
            Entry(append_field_refs(group.fields, ExpansionNameToTag,
                                    Expansion(<<>>, <<>>)).order, <<>>)
      [] OTHER ->
            GroupNode(group.name, group.required = "Y",
                      build_field_nodes(group.fields, ExpansionFieldMap), <<>>, <<>>)

\* the end of build_group_spec: the spec of the group from its entry
finish_group_spec(group, entry) ==
    GroupSpec(group.name, ExpansionNameToTag[group.name],
              IF group.fields # <<>> /\ group.fields[1].name \in DOMAIN ExpansionNameToTag
              THEN ExpansionNameToTag[group.fields[1].name]
              ELSE ExpansionNameToTag[group.name],
              dedupe(entry.order), entry.nested)

\* what a call returns
returned_value(mode, frame) ==
    IF mode = "spec" /\ frame.kind = "group"
    THEN finish_group_spec(frame.def, frame.val)
    ELSE frame.val

\* what the caller holds after the call returned
after_return(mode, frame, caller) ==
    CASE mode = "fields" -> frame.val
      [] mode = "spec" ->
            IF frame.kind = "group"
            THEN push_nested(caller, finish_group_spec(frame.def, frame.val))
            ELSE frame.val
      [] OTHER ->
            IF frame.kind = "group"
            THEN [caller EXCEPT !.groups = Append(@, frame.val)]
            ELSE [caller EXCEPT !.components = Append(@, frame.val)]

\* a variant that never finds the component on the stack
recursion_never_detected(stack, name) == FALSE

\* stack.contains(&name.to_string()), !stack.insert(name.to_string())
recursion_detected(stack, name) == \E i \in 1..Len(stack) : stack[i] = name

\* stack.pop() of the Vec, stack.remove(name) of the HashSet
leave(mode, stack, name) ==
    IF mode = "spec" THEN SelectSeq(stack, LAMBDA n : n # name)
    ELSE SubSeq(stack, 1, Len(stack) - 1)

Running == expansion.pc = "running"
Top == expansion.frames[Len(expansion.frames)]
Pending == Running /\ Top.next <= Len(Children(Top.def))
Callee == Children(Top.def)[Top.next]

\* the frames with the caller moved on to its next reference
Advanced(frames) == [frames EXCEPT ![Len(frames)].next = @ + 1]

\* the frames with what the caller holds replaced
Holding(frames, val) == [frames EXCEPT ![Len(frames)].val = val]

\* build_component finds the node in the cache and returns a clone
ReuseCached ==
    /\ Pending
    /\ Callee.kind = "component"
    /\ expansion.mode = "node"
    /\ Callee.name \in DOMAIN expansion.cache
    /\ expansion' =
           [expansion EXCEPT
               !.frames = Advanced(Holding(@,
                   [Top.val EXCEPT !.components =
                       Append(@, expansion.cache[Callee.name])]))]
    /\ UNCHANGED <<summaryVars, registryVars, pcapVars, dictionary, schema, checked,
                   report, pretty, streamVars, name_call, threads>>

\* the component is on the stack: the nested expansion is skipped, with a
\* warning from append_component_fields and build_component
SkipRecursive ==
    /\ Pending
    /\ Callee.kind = "component"
    /\ ~(expansion.mode = "node" /\ Callee.name \in DOMAIN expansion.cache)
    /\ recursion_detected(expansion.stack, Callee.name)
    /\ expansion' =
           [expansion EXCEPT
               !.frames = Advanced(@),
               !.warned = IF expansion.mode = "spec" THEN @ ELSE Append(@, Callee.name)]
    /\ UNCHANGED <<summaryVars, registryVars, pcapVars, dictionary, schema, checked,
                   report, pretty, streamVars, name_call, threads>>

\* the component is not defined: components.get(name) is None
SkipMissing ==
    /\ Pending
    /\ Callee.kind = "component"
    /\ ~(expansion.mode = "node" /\ Callee.name \in DOMAIN expansion.cache)
    /\ ~recursion_detected(expansion.stack, Callee.name)
    /\ Callee.name \notin DOMAIN ExpansionComponents
    /\ expansion' = [expansion EXCEPT !.frames = Advanced(@)]
    /\ UNCHANGED <<summaryVars, registryVars, pcapVars, dictionary, schema, checked,
                   report, pretty, streamVars, name_call, threads>>

\* the component is entered: its name goes onto the stack
CallComponent ==
    /\ Pending
    /\ Callee.kind = "component"
    /\ ~(expansion.mode = "node" /\ Callee.name \in DOMAIN expansion.cache)
    /\ ~recursion_detected(expansion.stack, Callee.name)
    /\ Callee.name \in DOMAIN ExpansionComponents
    /\ Len(expansion.frames) < MaxDepth
    /\ expansion' =
           [expansion EXCEPT
               !.frames = Append(Advanced(@),
                   Frame_("component", ExpansionComponents[Callee.name], 1,
                          enter_component(expansion.mode,
                                          ExpansionComponents[Callee.name], Top.val))),
               !.stack = Append(@, Callee.name)]
    /\ UNCHANGED <<summaryVars, registryVars, pcapVars, dictionary, schema, checked,
                   report, pretty, streamVars, name_call, threads>>

\* build_group_spec returns None for a group whose name is not a field
SkipGroup ==
    /\ Pending
    /\ Callee.kind = "group"
    /\ expansion.mode = "spec"
    /\ Callee.def.name \notin DOMAIN ExpansionNameToTag
    /\ expansion' = [expansion EXCEPT !.frames = Advanced(@)]
    /\ UNCHANGED <<summaryVars, registryVars, pcapVars, dictionary, schema, checked,
                   report, pretty, streamVars, name_call, threads>>

\* the nested group is entered
CallGroup ==
    /\ Pending
    /\ Callee.kind = "group"
    /\ ~(expansion.mode = "spec" /\ Callee.def.name \notin DOMAIN ExpansionNameToTag)
    /\ Len(expansion.frames) < MaxDepth
    /\ expansion' =
           [expansion EXCEPT
               !.frames = Append(Advanced(@),
                   Frame_("group", Callee.def, 1,
                          enter_group(expansion.mode, Callee.def, Top.val)))]
    /\ UNCHANGED <<summaryVars, registryVars, pcapVars, dictionary, schema, checked,
                   report, pretty, streamVars, name_call, threads>>

\* the function has walked its references and returns to its caller: a
\* component leaves the stack, and build_component puts its node into the
\* cache; the first call returns the result
Return ==
    /\ Running
    /\ ~Pending
    /\ expansion' =
           [expansion EXCEPT
               !.frames =
                   IF Len(@) = 1 THEN <<>>
                   ELSE Holding(SubSeq(@, 1, Len(@) - 1),
                                after_return(expansion.mode, Top, @[Len(@) - 1].val)),
               !.stack = IF Top.kind = "component"
                         THEN leave(expansion.mode, @, Top.def.name) ELSE @,
               !.cache = IF Top.kind = "component" /\ expansion.mode = "node"
                         THEN MapInsert(@, Top.def.name, Top.val) ELSE @,
               !.result = IF Len(expansion.frames) = 1
                          THEN returned_value(expansion.mode, Top) ELSE @,
               !.pc = IF Len(expansion.frames) = 1 THEN "returned" ELSE @]
    /\ UNCHANGED <<summaryVars, registryVars, pcapVars, dictionary, schema, checked,
                   report, pretty, streamVars, name_call, threads>>

\* one of the three functions is called on a group, with an empty stack
InitExpand ==
    /\ SummaryInit
    /\ fix_override = None
    /\ lookups = <<>>
    /\ next_obj = 1
    /\ RegistryIdle
    /\ PcapIdle
    /\ dictionary = <<>>
    /\ schema = NoLookup
    /\ checked = <<>>
    /\ report = <<>>
    /\ pretty = <<>>
    /\ StreamIdle
    /\ name_call = <<>>
    /\ threads = NoThreads
    /\ \E mode \in ExpansionModes, root \in ExpansionRoots :
           expansion =
               [pc |-> "running", mode |-> mode, root |-> root,
                frames |-> <<Frame_("group", root, 1,
                                    enter_group(mode, root, Expansion(<<>>, <<>>)))>>,
                stack |-> <<>>, cache |-> <<>>, warned |-> <<>>, result |-> None]

NextExpand ==
    \/ ReuseCached
    \/ SkipRecursive
    \/ SkipMissing
    \/ CallComponent
    \/ SkipGroup
    \/ CallGroup
    \/ Return

\* a function that was called runs until it returns
SpecExpand == InitExpand /\ [][NextExpand]_vars /\ WF_vars(NextExpand)

(***************************************************************************)
(* Properties of the expansion                                             *)
(***************************************************************************)

ExpansionReturned == expansion.pc = "returned"

\* no component is on the stack twice, and every one of them is defined
StackOfDistinctComponents ==
    /\ \A i, j \in 1..Len(expansion.stack) :
           expansion.stack[i] = expansion.stack[j] => i = j
    /\ \A i \in 1..Len(expansion.stack) : expansion.stack[i] \in DOMAIN ExpansionComponents

\* the component names a definition references, through its groups too
RECURSIVE ReferencedNames(_)
ReferencedNames(def) ==
    {def.components[i].name : i \in 1..Len(def.components)}
    \cup UNION {ReferencedNames(def.groups[i]) : i \in 1..Len(def.groups)}

\* what the function returns for the group: the order and the required
\* tags, the group spec, the group node
ResultProduced ==
    CASE expansion.mode = "fields" ->
            expansion.result =
                append_group_fields(expansion.root, ExpansionComponents,
                                    ExpansionNameToTag, <<>>, Expansion(<<>>, <<>>))
      [] expansion.mode = "spec" ->
            /\ expansion.result =
                   build_group_spec(expansion.root, ExpansionComponents,
                                    ExpansionNameToTag, {})
            /\ expansion.result.count_tag = ExpansionNameToTag[expansion.root.name]
      [] OTHER ->
            /\ expansion.result.name = expansion.root.name
            /\ expansion.result.fields =
                   build_field_nodes(expansion.root.fields, ExpansionFieldMap)
            /\ Len(expansion.result.groups) = Len(expansion.root.groups)
            /\ \A i \in 1..Len(expansion.result.components) :
                   expansion.result.components[i].name \in DOMAIN ExpansionComponents

\* C28: every expansion of a group of a finite dictionary returns, also
\* when its components reference themselves directly, transitively or
\* through a group, and when a referenced component is not defined: no
\* component is ever on the expansion stack twice, the stack is empty at
\* the return, and the field order, the group spec or the node is produced.
C28_ExpansionTerminates ==
    /\ [](StackOfDistinctComponents /\ Len(expansion.frames) < MaxDepth)
    /\ [](ExpansionReturned => expansion.stack = <<>> /\ expansion.frames = <<>> /\ ResultProduced)
    /\ <>ExpansionReturned

\* the expansion of a group that references a component on a cycle and a
\* component that is not defined has returned, with the warning for the
\* component found on the stack
C28_ReturnedDespiteCycle ==
    /\ ExpansionReturned
    /\ "Undefined" \in ReferencedNames(expansion.root)
    /\ "Loop" \in ReferencedNames(expansion.root)
    /\ expansion.mode = "fields"
    /\ expansion.warned = <<"Loop">>
    /\ expansion.result.order # <<>>

(***************************************************************************)
(* The registry under concurrent callers: two threads in                   *)
(* load_dictionary_with_override and one in register_dictionary, one       *)
(* acquisition of the LOOKUPS lock per step                                *)
(***************************************************************************)

\* the keys of the race: embedded schemas that need no session dictionary
RaceKeys == {"FIX42", "FIX44"}

\* the messages the loaders are called with
RaceMsgs == {<<<<8, "FIX.4.4">>>>, <<<<8, "FIX.4.2">>>>}

\* the overrides of the loaders: None or a key
RaceOverrides == {None} \cup RaceKeys

Loaders == {"loader1", "loader2"}

\* a thread at the entry of load_dictionary_with_override(msg, override):
\* phase names the key get_dictionary is called for, dict is its result for
\* the override, arc the object built and not yet in the cache
Loader(msg, override) ==
    [pc |-> IF override = None THEN "read" ELSE "combo",
     phase |-> IF override = None THEN "detected" ELSE "override",
     msg |-> msg, override |-> override, dict |-> NoLookup, arc |-> NoLookup,
     res |-> NoLookup]

\* a thread at the entry of register_dictionary(key, dict of xml)
Registrar(key, xml) ==
    [pc |-> "start", phase |-> "register", msg |-> <<>>, override |-> key, dict |-> xml,
     arc |-> NoLookup, res |-> NoLookup]

\* the key of the get_dictionary call the loader is in
KeyOfPhase(t) ==
    CASE t.phase = "override" -> t.override
      [] t.phase = "detected" -> detect_schema_key(t.msg)
      [] OTHER -> "FIX44"

\* a thread and the allocation count after a step
Stepped(t, n) == [t |-> t, n |-> n]

\* the loader has the override and the fallback: the same object is
\* returned as it is, otherwise the merged copy is built
with_fallback(t, fallback, n) ==
    IF t.dict = NoLookup
    THEN Stepped([t EXCEPT !.pc = "done", !.res = fallback], n)
    ELSE IF t.dict.id = fallback.id
    THEN Stepped([t EXCEPT !.pc = "done", !.res = t.dict], n)
    ELSE Stepped([t EXCEPT !.pc = "store",
                           !.arc = merge_with_fallback(n, t.dict, fallback,
                                                       "DetectedOverride")], n + 1)

\* get_dictionary returned value to the loader: the override goes on to
\* load_dictionary(msg), a detected key without a dictionary to FIX44
after_get(t, value, n) ==
    IF t.phase = "override"
    THEN Stepped([t EXCEPT !.dict = value, !.phase = "detected", !.pc = "read"], n)
    ELSE IF t.phase = "detected" /\ value = NoLookup
    THEN Stepped([t EXCEPT !.phase = "default", !.pc = "read"], n)
    ELSE with_fallback(t, value, n)

\* LOOKUPS.read(): the composite entry, returned when it is there
CheckCombo ==
    \E tid \in Loaders :
        /\ threads[tid].pc = "combo"
        /\ \E combo_key \in {ComboKey(threads[tid].override,
                                      detect_schema_key(threads[tid].msg))} :
               threads' = [threads EXCEPT ![tid] =
                   IF combo_key \in DOMAIN lookups
                   THEN [@ EXCEPT !.pc = "done", !.res = lookups[combo_key]]
                   ELSE [@ EXCEPT !.pc = "read"]]
        /\ UNCHANGED <<lookups, next_obj, reg_call, summaryVars, pcapVars, dictionary,
                       schema, checked, report, pretty, streamVars, name_call, expansion>>

\* get_dictionary, LOOKUPS.read(): the entry when there is one; otherwise
\* the lookup is built from the embedded XML, outside the lock
ReadCache ==
    \E tid \in Loaders :
        /\ threads[tid].pc = "read"
        /\ \E key \in {KeyOfPhase(threads[tid])} :
           \E s \in {IF PlainKey(key) \in DOMAIN lookups
                     THEN after_get(threads[tid], lookups[PlainKey(key)], next_obj)
                     ELSE IF schema_to_xml_id(key) = None
                     THEN after_get(threads[tid], NoLookup, next_obj)
                     ELSE Stepped([threads[tid] EXCEPT
                                      !.pc = "insert",
                                      !.arc = NewLookup(next_obj, key, schema_to_xml_id(key),
                                                        NoLookup, None)],
                                  next_obj + 1)} :
               /\ threads' = [threads EXCEPT ![tid] = s.t]
               /\ next_obj' = s.n
        /\ UNCHANGED <<lookups, reg_call, summaryVars, pcapVars, dictionary,
                       schema, checked, report, pretty, streamVars, name_call, expansion>>

\* get_dictionary, LOOKUPS.write(): entry(key).or_insert_with(|| arc)
InsertBuilt ==
    \E tid \in Loaders :
        /\ threads[tid].pc = "insert"
        /\ \E key \in {PlainKey(KeyOfPhase(threads[tid]))} :
           \E entry \in {IF key \in DOMAIN lookups THEN lookups[key]
                         ELSE threads[tid].arc} :
           \E s \in {after_get(threads[tid], entry, next_obj)} :
               /\ lookups' = IF key \in DOMAIN lookups THEN lookups
                             ELSE MapInsert(lookups, key, entry)
               /\ threads' = [threads EXCEPT ![tid] = s.t]
               /\ next_obj' = s.n
        /\ UNCHANGED <<reg_call, summaryVars, pcapVars, dictionary,
                       schema, checked, report, pretty, streamVars, name_call, expansion>>

\* LOOKUPS.write(): guard.insert(combo_key, merged.clone()); return merged
StoreCombo ==
    \E tid \in Loaders :
        /\ threads[tid].pc = "store"
        /\ lookups' = MapInsert(lookups,
                                ComboKey(threads[tid].override,
                                         detect_schema_key(threads[tid].msg)),
                                threads[tid].arc)
        /\ threads' = [threads EXCEPT ![tid] = [@ EXCEPT !.pc = "done", !.res = threads[tid].arc]]
        /\ UNCHANGED <<next_obj, reg_call, summaryVars, pcapVars, dictionary,
                       schema, checked, report, pretty, streamVars, name_call, expansion>>

\* register_dictionary: the lookup is built, then under LOOKUPS.write() it
\* is inserted and the composite entries of the key are dropped
RegisterConcurrently ==
    /\ threads["registrar"].pc = "start"
    /\ \E r \in {register_dictionary(Registry(lookups, next_obj),
                                     threads["registrar"].override,
                                     threads["registrar"].dict)} :
           /\ lookups' = r.reg.lookups
           /\ next_obj' = r.reg.next_obj
           /\ threads' = [threads EXCEPT !["registrar"] =
                             [@ EXCEPT !.pc = "done", !.res = r.res]]
    /\ UNCHANGED <<reg_call, summaryVars, pcapVars, dictionary,
                   schema, checked, report, pretty, streamVars, name_call, expansion>>

InitRace ==
    /\ SummaryInit
    /\ fix_override = None
    /\ lookups = <<>>
    /\ next_obj = 1
    /\ RegistryIdle
    /\ PcapIdle
    /\ dictionary = <<>>
    /\ schema = NoLookup
    /\ checked = <<>>
    /\ report = <<>>
    /\ pretty = <<>>
    /\ StreamIdle
    /\ name_call = <<>>
    /\ expansion = NoExpansion
    /\ \E msg \in RaceMsgs, o1 \in RaceOverrides, o2 \in RaceOverrides, key \in RaceKeys :
           threads = [tid \in Loaders \cup {"registrar"} |->
                         CASE tid = "loader1" -> Loader(msg, o1)
                           [] tid = "loader2" -> Loader(msg, o2)
                           [] OTHER -> Registrar(key, "custom-a")]

NextRace == CheckCombo \/ ReadCache \/ InsertBuilt \/ StoreCombo \/ RegisterConcurrently

SpecRace == InitRace /\ [][NextRace]_vars

(***************************************************************************)
(* Properties of the registry under concurrent callers                     *)
(***************************************************************************)

\* every call has returned
AllReturned == \A tid \in DOMAIN threads : threads[tid].pc = "done"

\* the composite entry is built from what the cache holds for the key: its
\* primary is a copy of the entry of the override, its fallback is the
\* entry of the detected key
BuiltFromCurrent(combo, key, override, detected) ==
    /\ (key = override /\ PlainKey(override) \in DOMAIN lookups) =>
           combo.xml = lookups[PlainKey(override)].xml
    /\ (key = detected /\ PlainKey(detected) \in DOMAIN lookups) =>
           combo.fallback.id = lookups[PlainKey(detected)].id

\* C30: after a load_dictionary_with_override(msg, O) and a
\* register_dictionary(K, ..) with K = O or K = the schema detected from
\* msg have both returned, in whatever order their steps were taken, the
\* cache holds no composite entry "O+detected" built from the schema K had
\* before the registration; and concurrent first loads of the same key that
\* was not cached return the same object.
C30_NoStaleCompositeAfterRace ==
    AllReturned =>
        /\ \A tid \in Loaders :
               (/\ threads[tid].override # None
                /\ threads["registrar"].override
                       \in {threads[tid].override, detect_schema_key(threads[tid].msg)}
                /\ ComboKey(threads[tid].override, detect_schema_key(threads[tid].msg))
                       \in DOMAIN lookups) =>
                   BuiltFromCurrent(
                       lookups[ComboKey(threads[tid].override,
                                        detect_schema_key(threads[tid].msg))],
                       threads["registrar"].override, threads[tid].override,
                       detect_schema_key(threads[tid].msg))
        /\ (/\ threads["loader1"].override = None
            /\ threads["loader2"].override = None
            /\ threads["registrar"].override # detect_schema_key(threads["loader1"].msg)) =>
               threads["loader1"].res.id = threads["loader2"].res.id

====
